---------------------------- MODULE Spec2Model ----------------------------
(***************************************************************************)
(* Offline operation queue and synchronisation engine of                   *)
(* GestionLecturasAgua: the OfflineQueue table and its repository, the     *)
(* entity repositories with their reconcile functions, and the sync        *)
(* orchestrator (triggerSync / processQueueItem) of syncService.ts.        *)
(*                                                                         *)
(* One action is the code that runs between two awaits of the JavaScript   *)
(* event loop; a database call is applied at the step that awaits it.      *)
(***************************************************************************)
EXTENDS Integers, Sequences, FiniteSets, TLC

(***************************************************************************)
(* Bounds of the model.                                                    *)
(***************************************************************************)
MaxItems == 3
MaxUuid == 2
MaxTime == 1
MaxAttempts == 2

(***************************************************************************)
(* Program constants.                                                      *)
(***************************************************************************)
\* getPendingOperations(limit = 50)
DefaultLimit == 50

\* SQL NULL / JavaScript undefined for id, version and timestamp values
NULL == -1

Slots == 1..2
Serials == {11}
ServerIds == {101}

Min(a, b) == IF a < b THEN a ELSE b

(***************************************************************************)
(* OfflineQueue table: a sequence of rows in rowid (insertion) order.      *)
(***************************************************************************)
QueueStatuses == {"pending", "processing", "completed", "failed", "retrying"}

\* the same row with the insertion counted as an attempt
NewQueueItemAttempted(id, operationType, payload, entityId, entityType, relatedEntityId, now) ==
    [id |-> id, operationType |-> operationType, payload |-> payload,
     entityId |-> entityId, entityType |-> entityType,
     relatedEntityId |-> relatedEntityId,
     timestamp |-> now, status |-> "pending", attempts |-> 1,
     errorDetails |-> "NULL"]

\* the row addOperationToQueue inserts
NewQueueItem(id, operationType, payload, entityId, entityType, relatedEntityId, now) ==
    [id |-> id, operationType |-> operationType, payload |-> payload,
     entityId |-> entityId, entityType |-> entityType,
     relatedEntityId |-> relatedEntityId,
     timestamp |-> now, status |-> "pending", attempts |-> 0,
     errorDetails |-> "NULL"]

AddOperationToQueue(q, item) == Append(q, item)

\* ORDER BY timestamp ASC over rows scanned in rowid order: row i of s comes
\* before row j when it is older, or as old and inserted earlier
ComesBefore(s, i, j) ==
    \/ s[i].timestamp < s[j].timestamp
    \/ s[i].timestamp = s[j].timestamp /\ i < j

OrderByTimestamp(s) ==
    [p \in 1..Len(s) |->
        s[CHOOSE i \in 1..Len(s) :
             Cardinality({j \in 1..Len(s) : ComesBefore(s, j, i)}) = p - 1]]

ReadyStatusesWithProcessing == {"pending", "failed", "processing"}
\* WHERE status = 'pending' OR status = 'failed'
ReadyStatuses == {"pending", "failed"}

\* SELECT * FROM OfflineQueue WHERE status = 'pending' OR status = 'failed'
\*   ORDER BY timestamp ASC LIMIT ?
GetPendingOperations(q, limit) ==
    LET Limited(ready) == SubSeq(OrderByTimestamp(ready), 1, Min(limit, Len(ready)))
    IN  CHOOSE rows \in {Limited(ready) :
                            ready \in {SelectSeq(q, LAMBDA r : r.status \in ReadyStatuses)}} :
            TRUE

\* the same UPDATE without its clause errorDetails = NULL
UpdateRowKeepingErrorDetails(r, status, attemptsIncrement, errorDetails) ==
    [r EXCEPT !.status = status,
              !.attempts = IF attemptsIncrement > 0
                           THEN Min(MaxAttempts, @ + attemptsIncrement) ELSE @,
              !.errorDetails = IF errorDetails # "UNDEFINED" THEN errorDetails
                               ELSE @]

\* the same UPDATE writing the time of the attempt into the timestamp column
UpdateRowWithTimestamp(r, status, attemptsIncrement, errorDetails) ==
    [r EXCEPT !.status = status,
              !.timestamp = MaxTime + 1,
              !.attempts = IF attemptsIncrement > 0
                           THEN Min(MaxAttempts, @ + attemptsIncrement) ELSE @,
              !.errorDetails = IF errorDetails # "UNDEFINED" THEN errorDetails
                               ELSE IF status = "failed" THEN @
                               ELSE "NULL"]

\* UPDATE OfflineQueue SET status = ?, [attempts = attempts + ?,] lastAttemptAt = ?,
\*   [errorDetails = ? | errorDetails = NULL] WHERE id = ?
\* errorDetails "UNDEFINED" stands for the omitted argument; the lastAttemptAt
\* column, which nothing reads, is left out of the rows.
UpdateRow(r, status, attemptsIncrement, errorDetails) ==
    [r EXCEPT !.status = status,
              !.attempts = IF attemptsIncrement > 0
                           THEN Min(MaxAttempts, @ + attemptsIncrement) ELSE @,
              !.errorDetails = IF errorDetails # "UNDEFINED" THEN errorDetails
                               ELSE IF status = "failed" THEN @
                               ELSE "NULL"]

\* the same UPDATE without its WHERE clause
UpdateEveryQueueItem(q, id, status, attemptsIncrement, errorDetails) ==
    [i \in 1..Len(q) |-> UpdateRow(q[i], status, attemptsIncrement, errorDetails)]

UpdateQueueItemStatus(q, id, status, attemptsIncrement, errorDetails) ==
    [i \in 1..Len(q) |->
        IF q[i].id = id THEN UpdateRow(q[i], status, attemptsIncrement, errorDetails)
        ELSE q[i]]

\* DELETE FROM OfflineQueue WHERE status = 'completed'
ClearCompletedOperations(q) == SelectSeq(q, LAMBDA r : r.status # "completed")


(***************************************************************************)
(* Meters table: rows in rowid order.                                      *)
(*   id TEXT PRIMARY KEY NOT NULL, serialNumber TEXT UNIQUE NOT NULL,      *)
(*   syncStatus, lastModified, serverId, version INTEGER DEFAULT 0.        *)
(* serialNumber stands for the domain columns the reconcile functions copy *)
(* from the server with `server.x ?? local.x`.                             *)
(***************************************************************************)
NoRow == [id |-> NULL]

\* SELECT * FROM Meters WHERE id = ?  (rows.item(0) or null)
GetMeterById(ms, id) ==
    LET hit == SelectSeq(ms, LAMBDA r : r.id = id)
    IN  IF hit = <<>> THEN NoRow ELSE hit[1]

\* SELECT * FROM Meters WHERE serverId = ?
GetMeterByServerId(ms, serverId) ==
    LET hit == SelectSeq(ms, LAMBDA r : r.serverId = serverId)
    IN  IF hit = <<>> THEN NoRow ELSE hit[1]

\* the Meters table without UNIQUE on serialNumber
MeterInsertOkWithoutUnique(ms, r) ==
    /\ r.serialNumber # NULL
    /\ \A i \in 1..Len(ms) : ms[i].id # r.id

\* the constraints of the Meters table an INSERT of row r has to meet
MeterInsertOk(ms, r) ==
    /\ r.serialNumber # NULL
    /\ \A i \in 1..Len(ms) : ms[i].id # r.id /\ ms[i].serialNumber # r.serialNumber

\* the constraints an UPDATE of the row with this id to serialNumber sn has to meet
MeterUpdateOk(ms, id, sn) ==
    /\ sn # NULL
    /\ \A i \in 1..Len(ms) : ms[i].id # id => ms[i].serialNumber # sn

ReplaceRow(t, id, new) == [i \in 1..Len(t) |-> IF t[i].id = id THEN new ELSE t[i]]

DeleteRow(t, id) == SelectSeq(t, LAMBDA r : r.id # id)

\* UPDATE Meters SET syncStatus = 'error', lastModified = strftime('%s','now') WHERE id = ?
UpdateMeterSyncStatusOnError(ms, id, now) ==
    [i \in 1..Len(ms) |->
        IF ms[i].id = id THEN [ms[i] EXCEPT !.syncStatus = "error", !.lastModified = now]
        ELSE ms[i]]

\* Math.floor(new Date(iso).getTime() / 1000); server times are in milliseconds
FloorSeconds(ms) == ms \div 1000

\* a ?? b
Coalesce(a, b) == IF a # NULL THEN a ELSE b

InsertReconciledMeterFromServer(ms, sm, newId, now) ==
    LET row == [id |-> newId, serverId |-> sm.id, serialNumber |-> sm.serialNumber,
                version |-> Coalesce(sm.version, 0), syncStatus |-> "synced",
                lastModified |-> IF sm.updatedAt # NULL THEN FloorSeconds(sm.updatedAt)
                                 ELSE now]
    IN  IF MeterInsertOk(ms, row)
        THEN [meters |-> Append(ms, row), threw |-> FALSE]
        ELSE [meters |-> ms, threw |-> TRUE]

ReconcileCreatedMeter(ms, localId, sm, newId, now) ==
    LET localMeter == GetMeterById(ms, localId) IN
    IF localMeter = NoRow
    THEN InsertReconciledMeterFromServer(ms, sm, newId, now)
    ELSE
      LET sn == Coalesce(sm.serialNumber, localMeter.serialNumber)
          row == [localMeter EXCEPT
                    !.serverId = sm.id,
                    !.serialNumber = sn,
                    !.version = Coalesce(sm.version, Coalesce(localMeter.version, 0)),
                    !.lastModified = IF sm.updatedAt # NULL
                                     THEN FloorSeconds(sm.updatedAt) ELSE @,
                    !.syncStatus = "synced"]
      IN  IF MeterUpdateOk(ms, localId, sn)
          THEN [meters |-> ReplaceRow(ms, localId, row), threw |-> FALSE]
          ELSE [meters |-> UpdateMeterSyncStatusOnError(ms, localId, now), threw |-> TRUE]

ReconcileUpdatedMeter(ms, meterId0, sm, newId, now) ==
    LET byId == GetMeterById(ms, meterId0)
        localMeter == IF byId # NoRow THEN byId ELSE GetMeterByServerId(ms, sm.id)
    IN
    IF localMeter = NoRow
    THEN InsertReconciledMeterFromServer(ms, sm, newId, now)
    ELSE
      LET meterId == localMeter.id
          serverVersion == sm.version
          localVersion == Coalesce(localMeter.version, 0)
          serverTimestamp == IF sm.updatedAt # NULL THEN sm.updatedAt ELSE 0
          localTimestamp == IF localMeter.lastModified # NULL /\ localMeter.lastModified # 0
                            THEN localMeter.lastModified * 1000 ELSE 0
          localNewer == serverVersion # NULL /\ serverVersion < localVersion
          keepLocal == /\ ~localNewer
                       /\ serverVersion = localVersion
                       /\ serverTimestamp < localTimestamp
                       /\ localMeter.syncStatus = "synced"
          sn == Coalesce(sm.serialNumber, localMeter.serialNumber)
          row == [localMeter EXCEPT
                    !.serialNumber = sn,
                    !.version = Coalesce(sm.version, localVersion),
                    !.lastModified = IF sm.updatedAt # NULL
                                     THEN FloorSeconds(sm.updatedAt) ELSE @,
                    !.syncStatus = "synced",
                    !.serverId = sm.id]
      IN  IF keepLocal THEN [meters |-> ms, threw |-> FALSE]
          ELSE IF MeterUpdateOk(ms, meterId, sn)
          THEN [meters |-> ReplaceRow(ms, meterId, row), threw |-> FALSE]
          ELSE [meters |-> UpdateMeterSyncStatusOnError(ms, meterId, now), threw |-> TRUE]

\* serverId is serverResponseData?.id, NULL when the response carries none
ReconcileDeletedMeter(ms, localId, serverId) ==
    LET byId == GetMeterById(ms, localId)
        meterToDelete == IF byId = NoRow /\ serverId # NULL
                         THEN GetMeterByServerId(ms, serverId) ELSE byId
    IN  IF meterToDelete # NoRow
        THEN [meters |-> DeleteRow(ms, meterToDelete.id), threw |-> FALSE]
        ELSE [meters |-> ms, threw |-> FALSE]


(***************************************************************************)
(* Readings table: id TEXT PRIMARY KEY NOT NULL, meterId TEXT NOT NULL,    *)
(* syncStatus, lastModified, serverId, version.                            *)
(***************************************************************************)
GetReadingById(rs, id) ==
    LET hit == SelectSeq(rs, LAMBDA r : r.id = id)
    IN  IF hit = <<>> THEN NoRow ELSE hit[1]

\* UPDATE Readings SET syncStatus = ?, lastModified = strftime('%s','now') WHERE id = ?
SetReadingSyncStatus(rs, id, syncStatus, now) ==
    [i \in 1..Len(rs) |->
        IF rs[i].id = id THEN [rs[i] EXCEPT !.syncStatus = syncStatus, !.lastModified = now]
        ELSE rs[i]]

\* the UPDATE both reconcile functions of a reading run; meterId is NOT NULL
ApplyServerReading(rs, id, sr, now) ==
    LET old == GetReadingById(rs, id)
        row == [old EXCEPT
                  !.serverId = sr.id,
                  !.meterId = sr.meterId,
                  !.version = sr.version,
                  !.syncStatus = "synced",
                  !.lastModified = IF sr.updatedAt # NULL
                                   THEN FloorSeconds(sr.updatedAt) ELSE now]
    IN  IF old = NoRow THEN [readings |-> rs, threw |-> FALSE]
        ELSE IF sr.meterId = NULL THEN [readings |-> rs, threw |-> TRUE]
        ELSE [readings |-> ReplaceRow(rs, id, row), threw |-> FALSE]

ReconcileCreatedReading(rs, localId, sr, now) ==
    LET existingReadingByServerId == GetReadingById(rs, sr.id) IN
    IF existingReadingByServerId # NoRow /\ existingReadingByServerId.id # localId
    THEN [readings |-> SetReadingSyncStatus(rs, localId, "conflicted", now),
          threw |-> FALSE]
    ELSE ApplyServerReading(rs, localId, sr, now)

\* the same function rejecting when it finds the version regression
ReconcileUpdatedReadingThrowing(rs, readingId, sr, now) ==
    LET localReading == GetReadingById(rs, readingId) IN
    IF localReading = NoRow THEN [readings |-> rs, threw |-> FALSE]
    ELSE IF sr.version # NULL /\ localReading.version # NULL
            /\ sr.version < localReading.version
    THEN [readings |-> SetReadingSyncStatus(rs, readingId, "conflicted", now),
          threw |-> TRUE]
    ELSE ApplyServerReading(rs, readingId, sr, now)

ReconcileUpdatedReading(rs, readingId, sr, now) ==
    LET localReading == GetReadingById(rs, readingId) IN
    IF localReading = NoRow THEN [readings |-> rs, threw |-> FALSE]
    ELSE IF sr.version # NULL /\ localReading.version # NULL
            /\ sr.version < localReading.version
    THEN [readings |-> SetReadingSyncStatus(rs, readingId, "conflicted", now),
          threw |-> FALSE]
    ELSE ApplyServerReading(rs, readingId, sr, now)


(***************************************************************************)
(* Routes table: id TEXT PRIMARY KEY NOT NULL, name TEXT NOT NULL,         *)
(* syncStatus, lastModified, serverId, version INTEGER DEFAULT 1.          *)
(* The functions return the table, the operations they put on the offline  *)
(* queue, and whether they threw.                                          *)
(***************************************************************************)
GetRouteById(rt, id) ==
    LET hit == SelectSeq(rt, LAMBDA r : r.id = id)
    IN  IF hit = <<>> THEN NoRow ELSE hit[1]

\* updateRoute({ id, syncStatus }): a changed syncStatus is written and an
\* UPDATE_ROUTE operation is queued for it
UpdateRouteSyncStatus(rt, id, syncStatus, now) ==
    LET currentRoute == GetRouteById(rt, id) IN
    IF currentRoute = NoRow \/ currentRoute.syncStatus = syncStatus
    THEN [routes |-> rt, enqueued |-> <<>>]
    ELSE [routes |-> ReplaceRow(rt, id, [currentRoute EXCEPT !.syncStatus = syncStatus,
                                                            !.lastModified = now]),
          enqueued |-> <<[operationType |-> "UPDATE_ROUTE", entityId |-> id]>>]

ReconcileCreatedRoute(rt, localId, sr, now) ==
    LET existingRouteByServerId == GetRouteById(rt, sr.id)
        local == GetRouteById(rt, localId)
        marked(status) == UpdateRouteSyncStatus(rt, localId, status, now)
        row == [local EXCEPT !.id = sr.id, !.name = sr.name, !.serverId = sr.id,
                             !.version = sr.version, !.syncStatus = "synced",
                             !.lastModified = IF sr.updatedAt # NULL
                                              THEN FloorSeconds(sr.updatedAt) ELSE NULL]
    IN
    IF existingRouteByServerId # NoRow /\ existingRouteByServerId.id # localId
    THEN [routes |-> marked("conflicted").routes,
          enqueued |-> marked("conflicted").enqueued, threw |-> FALSE]
    ELSE IF local = NoRow
    THEN [routes |-> rt, enqueued |-> <<>>, threw |-> FALSE]
    ELSE IF sr.id = NULL \/ sr.name = NULL
    THEN [routes |-> marked("error").routes,
          enqueued |-> marked("error").enqueued, threw |-> TRUE]
    ELSE [routes |-> ReplaceRow(rt, localId, row), enqueued |-> <<>>, threw |-> FALSE]

ReconcileUpdatedRoute(rt, routeId, sr, now) ==
    LET localRoute == GetRouteById(rt, routeId)
        marked(status) == UpdateRouteSyncStatus(rt, routeId, status, now)
        row == [localRoute EXCEPT !.name = sr.name, !.serverId = sr.id,
                                  !.version = sr.version, !.syncStatus = "synced",
                                  !.lastModified = IF sr.updatedAt # NULL
                                                   THEN FloorSeconds(sr.updatedAt)
                                                   ELSE NULL]
    IN
    IF localRoute = NoRow
    THEN [routes |-> rt, enqueued |-> <<>>, threw |-> FALSE]
    ELSE IF sr.version # NULL /\ localRoute.version # NULL
            /\ sr.version < localRoute.version
    THEN [routes |-> marked("conflicted").routes,
          enqueued |-> marked("conflicted").enqueued, threw |-> FALSE]
    ELSE IF sr.name = NULL
    THEN [routes |-> marked("error").routes,
          enqueued |-> marked("error").enqueued, threw |-> TRUE]
    ELSE [routes |-> ReplaceRow(rt, routeId, row), enqueued |-> <<>>, threw |-> FALSE]


(***************************************************************************)
(* Incidents table: id TEXT PRIMARY KEY NOT NULL, syncStatus, lastModified,*)
(* version INTEGER DEFAULT 1; the table has no serverId column.            *)
(***************************************************************************)
\* UPDATE Incidents SET syncStatus = 'failed', lastModified = ... WHERE id = ?
MarkIncidentFailed(ins, id, now) ==
    [i \in 1..Len(ins) |->
        IF ins[i].id = id THEN [ins[i] EXCEPT !.syncStatus = "failed", !.lastModified = now]
        ELSE ins[i]]

\* the UPDATE of both functions sets the column serverId, which the table lacks:
\* the statement is rejected, the catch block marks the incident and rethrows
ReconcileCreatedIncident(ins, localId, si, now) ==
    IF si.id = NULL
    THEN [incidents |-> MarkIncidentFailed(ins, localId, now), threw |-> FALSE]
    ELSE [incidents |-> MarkIncidentFailed(ins, localId, now), threw |-> TRUE]

ReconcileUpdatedIncident(ins, localId, si, now) ==
    [incidents |-> MarkIncidentFailed(ins, localId, now), threw |-> TRUE]


(***************************************************************************)
(* RouteMeters table: PRIMARY KEY (routeId, meterId), sequenceOrder,       *)
(* status, visitDate, notes, syncStatus, lastModified; the table has       *)
(* neither a version nor a serverId column.                                *)
(***************************************************************************)
RouteMeterColumns ==
    {"routeId", "meterId", "sequenceOrder", "status", "visitDate", "notes",
     "syncStatus", "lastModified"}

\* the columns the UPDATE of both reconcile functions assigns
ReconcileRouteMeterSet ==
    {"sequenceOrder", "status", "visitDate", "notes", "syncStatus", "lastModified",
     "version", "serverId"}

GetRouteMeterById(rm, routeId, meterId) ==
    LET hit == SelectSeq(rm, LAMBDA r : r.routeId = routeId /\ r.meterId = meterId)
    IN  IF hit = <<>> THEN NoRow ELSE hit[1]

\* updateRouteMeter({ routeId, meterId, syncStatus }): a changed syncStatus is
\* written and an UPDATE_ROUTEMETER operation is queued for it
UpdateRouteMeterSyncStatus(rm, routeId, meterId, syncStatus, now) ==
    LET currentRouteMeter == GetRouteMeterById(rm, routeId, meterId) IN
    IF currentRouteMeter = NoRow \/ currentRouteMeter.syncStatus = syncStatus
    THEN [routeMeters |-> rm, enqueued |-> <<>>]
    ELSE [routeMeters |->
             [i \in 1..Len(rm) |->
                 IF rm[i].routeId = routeId /\ rm[i].meterId = meterId
                 THEN [rm[i] EXCEPT !.syncStatus = syncStatus, !.lastModified = now]
                 ELSE rm[i]],
          enqueued |-> <<[operationType |-> "UPDATE_ROUTEMETER", entityId |-> NULL]>>]

\* UPDATE RouteMeters SET ... WHERE routeId = ? AND meterId = ?, as both
\* reconcile functions issue it, with its catch block
ApplyServerRouteMeter(rm, routeId, meterId, srm, now) ==
    LET marked == UpdateRouteMeterSyncStatus(rm, routeId, meterId, "error", now) IN
    IF ReconcileRouteMeterSet \subseteq RouteMeterColumns
    THEN [routeMeters |->
             [i \in 1..Len(rm) |->
                 IF rm[i].routeId = routeId /\ rm[i].meterId = meterId
                 THEN [rm[i] EXCEPT !.sequenceOrder = srm.sequenceOrder,
                                    !.syncStatus = "synced",
                                    !.lastModified = FloorSeconds(srm.updatedAt)]
                 ELSE rm[i]],
          enqueued |-> <<>>, threw |-> FALSE]
    ELSE [routeMeters |-> marked.routeMeters, enqueued |-> marked.enqueued,
          threw |-> TRUE]

ReconcileCreatedRouteMeter(rm, localCompositeId, srm, now) ==
    IF GetRouteMeterById(rm, srm.routeId, srm.meterId) = NoRow
    THEN [routeMeters |-> rm, enqueued |-> <<>>, threw |-> FALSE]
    ELSE ApplyServerRouteMeter(rm, srm.routeId, srm.meterId, srm, now)

\* mapRowToRouteMeter maps no version, so the version comparison never applies
ReconcileUpdatedRouteMeter(rm, routeId, meterId, srm, now) ==
    IF GetRouteMeterById(rm, routeId, meterId) = NoRow
    THEN [routeMeters |-> rm, enqueued |-> <<>>, threw |-> FALSE]
    ELSE ApplyServerRouteMeter(rm, routeId, meterId, srm, now)


(***************************************************************************)
(* Settings table: key TEXT PRIMARY KEY NOT NULL, value, lastModified.     *)
(* The key is the id of the row.                                           *)
(***************************************************************************)
GetSettingByKey(st, key) ==
    LET hit == SelectSeq(st, LAMBDA r : r.id = key)
    IN  IF hit = <<>> THEN NoRow ELSE hit[1]

\* INSERT INTO Settings ... ON CONFLICT(key) DO UPDATE, with the server's key
ReconcileUpsertedSetting(st, settingKey, ss, now) ==
    LET localSetting == GetSettingByKey(st, settingKey)
        lastModifiedTimestamp ==
            IF ss.updatedAt # NULL THEN FloorSeconds(ss.updatedAt)
            ELSE IF localSetting # NoRow THEN localSetting.lastModified
            ELSE now
        row == [id |-> ss.key, value |-> ss.value, lastModified |-> lastModifiedTimestamp]
    IN
    IF ss.key = NULL
    THEN [settings |-> st, threw |-> TRUE]
    ELSE IF GetSettingByKey(st, ss.key) # NoRow
    THEN [settings |-> ReplaceRow(st, ss.key, row), threw |-> FALSE]
    ELSE [settings |-> Append(st, row), threw |-> FALSE]


(***************************************************************************)
(* State.                                                                  *)
(***************************************************************************)
VARIABLES
    queue,                \* OfflineQueue table
    meters,               \* Meters table
    readings,             \* Readings table
    now,                  \* Date.now() in seconds; a run of the engine is followed
                          \* within one second
    nextItemId,           \* next RNUUID.v4() of addOperationToQueue
    nextUuid,             \* next uuid.v4() of the entity repositories
    db,                   \* databaseService: db is not null
    isSyncing,            \* syncService: isSyncing
    currentSyncStatus,    \* syncService: currentSyncStatus
    currentNetworkState,  \* syncService: currentNetworkState
    listening,            \* NetInfo listener and 5 minute interval are registered
    pass,                 \* per running triggerSync invocation: its locals and position
    okReturned,           \* ids of the queued items whose remote call has returned success
    lastOp,               \* the repository mutation the last step was, and its outcome
    call                  \* a direct call of a repository function and its result

vars == <<queue, meters, readings, now, nextItemId, nextUuid, db, isSyncing,
          currentSyncStatus, currentNetworkState, listening, pass, okReturned,
          lastOp, call>>

syncVars == <<isSyncing, currentSyncStatus, pass>>

\* NetInfoState values
NetStates == {[isConnected |-> TRUE, isInternetReachable |-> TRUE],
              [isConnected |-> FALSE, isInternetReachable |-> FALSE]}

\* let currentNetworkState: NetInfoState | null = null
NoNet == [isConnected |-> FALSE, isInternetReachable |-> FALSE, isNull |-> TRUE]

\* currentNetworkState?.isInternetReachable
IsInternetReachable(net) == net # NoNet /\ net.isInternetReachable

IdlePass == [pc |-> "idle", isManualTrigger |-> FALSE, pendingItems |-> <<>>, idx |-> 0,
             dispatched |-> <<>>,
             processedItems |-> 0, completedItems |-> 0, failedItems |-> 0]

NoOp == [op |-> "none", returned |-> "ok", changed |-> FALSE, queued |-> FALSE]

NoCall == [fn |-> "none"]

\* let currentSyncStatus: SyncStatus = { status: 'idle' }
IdleStatus == [status |-> "idle"]

Init ==
    /\ queue = <<>>
    /\ meters = <<>>
    /\ readings = <<>>
    /\ now = 0
    /\ nextItemId = 1
    /\ nextUuid = 1
    /\ db = FALSE
    /\ isSyncing = FALSE
    /\ currentSyncStatus = IdleStatus
    /\ currentNetworkState = NoNet
    /\ listening = FALSE
    /\ pass = [s \in Slots |-> IdlePass]
    /\ okReturned = {}
    /\ lastOp = NoOp
    /\ call = NoCall

(***************************************************************************)
(* Repository mutations called by the UI.  queueFails: the INSERT into     *)
(* OfflineQueue throws.                                                    *)
(***************************************************************************)
\* the effect of `await addOperationToQueue(...)`: the id is generated, then the
\* INSERT runs
Enqueue(operationType, payload, entityId, entityType, relatedEntityId, queueFails) ==
    /\ nextItemId' = nextItemId + 1
    /\ queue' = IF queueFails THEN queue
                ELSE AddOperationToQueue(queue,
                        NewQueueItem(nextItemId, operationType, payload, entityId,
                                     entityType, relatedEntityId, now))

CanCallRepository == db /\ nextItemId <= MaxItems

MeterPayload(m) == [id |-> m.id, serialNumber |-> m.serialNumber, meterId |-> NULL]

AddMeter(serialNumber, queueFails) ==
    /\ CanCallRepository
    /\ nextUuid <= MaxUuid
    /\ LET newMeter == [id |-> nextUuid, serverId |-> NULL, serialNumber |-> serialNumber,
                        version |-> 0, syncStatus |-> "pending", lastModified |-> now]
       IN IF MeterInsertOk(meters, newMeter)
          THEN /\ meters' = Append(meters, newMeter)
               /\ nextUuid' = nextUuid + 1
               /\ Enqueue("CREATE_METER", MeterPayload(newMeter), newMeter.id, "Meter",
                          NULL, queueFails)
               \* catch (queueError): "Continue as the local operation was successful"
               /\ lastOp' = [op |-> "addMeter", returned |-> "ok",
                             changed |-> TRUE, queued |-> ~queueFails]
          ELSE /\ nextUuid' = nextUuid + 1
               /\ lastOp' = [op |-> "addMeter", returned |-> "threw",
                             changed |-> FALSE, queued |-> FALSE]
               /\ UNCHANGED <<meters, queue, nextItemId>>
    /\ UNCHANGED <<readings, now, db, listening, currentNetworkState, syncVars,
                   okReturned, call>>

\* updateMeter({id, serialNumber}): a data field is given, so syncStatus becomes pending
UpdateMeter(id, serialNumber, queueFails) ==
    /\ CanCallRepository
    /\ LET currentMeterState == GetMeterById(meters, id)
           updatedMeter == [currentMeterState EXCEPT !.serialNumber = serialNumber,
                                                     !.syncStatus = "pending",
                                                     !.lastModified = now]
       IN /\ currentMeterState # NoRow
          /\ IF MeterUpdateOk(meters, id, serialNumber)
             THEN /\ meters' = ReplaceRow(meters, id, updatedMeter)
                  /\ Enqueue("UPDATE_METER", MeterPayload(updatedMeter), id, "Meter",
                             NULL, queueFails)
                  /\ lastOp' = [op |-> "updateMeter", returned |-> "ok",
                                changed |-> TRUE, queued |-> ~queueFails]
             ELSE /\ meters' = UpdateMeterSyncStatusOnError(meters, id, now)
                  /\ lastOp' = [op |-> "updateMeter", returned |-> "threw",
                                changed |-> FALSE, queued |-> FALSE]
                  /\ UNCHANGED <<queue, nextItemId>>
    /\ UNCHANGED <<readings, now, nextUuid, db, listening, currentNetworkState,
                   syncVars, okReturned, call>>

DeleteMeter(id, queueFails) ==
    /\ CanCallRepository
    /\ GetMeterById(meters, id) # NoRow
    /\ meters' = DeleteRow(meters, id)
    /\ Enqueue("DELETE_METER", [id |-> id, serialNumber |-> NULL, meterId |-> NULL],
               id, "Meter", NULL, queueFails)
    /\ lastOp' = [op |-> "deleteMeter", returned |-> "ok",
                  changed |-> TRUE, queued |-> ~queueFails]
    /\ UNCHANGED <<readings, now, nextUuid, db, listening, currentNetworkState,
                   syncVars, okReturned, call>>

\* addReading awaits addOperationToQueue inside its try: a failure is rethrown,
\* after the reading row has been inserted
AddReading(meterId, queueFails) ==
    /\ CanCallRepository
    /\ nextUuid <= MaxUuid
    /\ LET newReading == [id |-> nextUuid, meterId |-> meterId, serverId |-> NULL,
                          version |-> 0, syncStatus |-> "pending", lastModified |-> now]
       IN /\ readings' = Append(readings, newReading)
          /\ nextUuid' = nextUuid + 1
          /\ Enqueue("CREATE_READING",
                     [id |-> newReading.id, serialNumber |-> NULL, meterId |-> meterId],
                     newReading.id, "Reading", meterId, queueFails)
          /\ lastOp' = [op |-> "addReading",
                        returned |-> IF queueFails THEN "threw" ELSE "ok",
                        changed |-> TRUE, queued |-> ~queueFails]
    /\ UNCHANGED <<meters, now, db, listening, currentNetworkState, syncVars,
                   okReturned, call>>

(***************************************************************************)
(* Remote authority.  A response is a failure, a success without a body,   *)
(* or a success whose body echoes the payload under a server id.           *)
(***************************************************************************)
\* result.data of a success whose body is empty
NoData == NoRow

ServerMeterFor(item, serverId, version) ==
    [id |-> serverId, serialNumber |-> item.payload.serialNumber,
     meterId |-> item.payload.meterId, version |-> version, updatedAt |-> NULL]

\* the bodies a success can carry: none (NULL), or the entity under a server id
BodyKinds == {NULL} \cup ServerIds

ResponseBody(item, kind) ==
    IF kind = NULL THEN NoData ELSE ServerMeterFor(item, kind, 1)

(***************************************************************************)
(* syncService.ts                                                          *)
(***************************************************************************)
\* the switch of handleReconciliation; newId is the uuid an insert would use
HandleReconciliation(item, serverResponseData, ms, rs, newId, t) ==
    LET localEntityId == item.entityId
        hasData == serverResponseData # NoData
        same == [meters |-> ms, readings |-> rs, threw |-> FALSE]
    IN
    CASE item.operationType = "CREATE_METER" /\ localEntityId # NULL /\ hasData ->
            LET r == ReconcileCreatedMeter(ms, localEntityId, serverResponseData, newId, t)
            IN  [meters |-> r.meters, readings |-> rs, threw |-> r.threw]
      [] item.operationType = "UPDATE_METER" /\ localEntityId # NULL /\ hasData ->
            LET r == ReconcileUpdatedMeter(ms, localEntityId, serverResponseData, newId, t)
            IN  [meters |-> r.meters, readings |-> rs, threw |-> r.threw]
      [] item.operationType = "DELETE_METER" /\ localEntityId # NULL ->
            LET r == ReconcileDeletedMeter(ms, localEntityId, serverResponseData.id)
            IN  [meters |-> r.meters, readings |-> rs, threw |-> r.threw]
      [] item.operationType = "CREATE_READING" /\ localEntityId # NULL /\ hasData ->
            LET r == ReconcileCreatedReading(rs, localEntityId, serverResponseData, t)
            IN  [meters |-> ms, readings |-> r.readings, threw |-> r.threw]
      [] item.operationType = "UPDATE_READING" /\ localEntityId # NULL /\ hasData ->
            LET r == ReconcileUpdatedReading(rs, localEntityId, serverResponseData, t)
            IN  [meters |-> ms, readings |-> r.readings, threw |-> r.threw]
      [] OTHER -> same

\* the same start of a pass that leaves isSyncing as it was
StartSyncWithoutFlag(isManualTrigger, net) ==
    IF ~IsInternetReachable(net)
    THEN /\ currentSyncStatus' = [status |-> "error"]
         /\ UNCHANGED <<isSyncing, pass>>
    ELSE IF ~db
    THEN /\ currentSyncStatus' = [status |-> "error"]
         /\ UNCHANGED <<isSyncing, pass>>
    ELSE IF \A x \in Slots : pass[x].pc # "idle"
    THEN UNCHANGED <<isSyncing, currentSyncStatus, pass>>
    ELSE LET s == CHOOSE x \in Slots :
                     pass[x].pc = "idle" /\ \A y \in Slots : pass[y].pc = "idle" => x <= y
         IN /\ isSyncing' = isSyncing
            /\ currentSyncStatus' = [status |-> "syncing"]
            /\ pass' = [pass EXCEPT ![s] = [IdlePass EXCEPT !.pc = "getPending",
                                               !.isManualTrigger = isManualTrigger]]

\* lines 426-440 of triggerSync: what a call does once it is past the guard;
\* net is the value of currentNetworkState the call reads
StartSync(isManualTrigger, net) ==
    IF ~IsInternetReachable(net)
    THEN /\ currentSyncStatus' = [status |-> "error"]
         /\ UNCHANGED <<isSyncing, pass>>
    ELSE IF ~db
    THEN /\ currentSyncStatus' = [status |-> "error"]
         /\ UNCHANGED <<isSyncing, pass>>
    ELSE LET s == CHOOSE x \in Slots :
                     pass[x].pc = "idle" /\ \A y \in Slots : pass[y].pc = "idle" => x <= y
         IN /\ isSyncing' = TRUE
            /\ currentSyncStatus' = [status |-> "syncing"]
            /\ pass' = [pass EXCEPT ![s] = [IdlePass EXCEPT !.pc = "getPending",
                                               !.isManualTrigger = isManualTrigger]]

TriggerSyncWithoutGuard(isManualTrigger, net) ==
    IF \E x \in Slots : pass[x].pc = "idle"
    THEN StartSync(isManualTrigger, net)
    ELSE UNCHANGED syncVars

\* triggerSync up to its first await
TriggerSync(isManualTrigger, net) ==
    IF isSyncing
    THEN /\ currentSyncStatus' = IF isManualTrigger
                                 THEN [status |-> "idle"]
                                 ELSE currentSyncStatus
         /\ UNCHANGED <<isSyncing, pass>>
    ELSE StartSync(isManualTrigger, net)

othersOfSync == <<queue, meters, readings, now, nextItemId, nextUuid, db, listening,
                  okReturned, call>>

\* initializeSyncService: NetInfo.fetch() resolves, listener and interval are set
InitializeSyncService(initialNetState) ==
    /\ ~listening
    /\ currentNetworkState' = initialNetState
    /\ listening' = TRUE
    /\ lastOp' = NoOp
    /\ UNCHANGED <<queue, meters, readings, now, nextItemId, nextUuid, db, syncVars,
                   okReturned, call>>

\* the same callback without the test of the previous state
NetInfoEventEveryReachable(netState) ==
    /\ listening
    /\ netState # currentNetworkState
    /\ currentNetworkState' = netState
    /\ IF netState.isConnected /\ netState.isInternetReachable
       THEN TriggerSync(FALSE, netState)
       ELSE UNCHANGED syncVars
    /\ lastOp' = NoOp
    /\ UNCHANGED othersOfSync

\* the NetInfo.addEventListener callback
NetInfoEvent(netState) ==
    /\ listening
    /\ netState # currentNetworkState
    /\ currentNetworkState' = netState
    /\ IF /\ netState.isConnected /\ netState.isInternetReachable
          /\ ~IsInternetReachable(currentNetworkState)
       THEN TriggerSync(FALSE, netState)
       ELSE UNCHANGED syncVars
    /\ lastOp' = NoOp
    /\ UNCHANGED othersOfSync

\* the setInterval callback
PeriodicTimer ==
    /\ listening
    /\ IsInternetReachable(currentNetworkState)
    /\ TriggerSync(FALSE, currentNetworkState)
    /\ UNCHANGED <<currentNetworkState>>
    /\ lastOp' = NoOp
    /\ UNCHANGED othersOfSync

ManualTriggerSync ==
    /\ IF ~IsInternetReachable(currentNetworkState)
       THEN /\ currentSyncStatus' = [status |-> "error"]
            /\ UNCHANGED <<isSyncing, pass>>
       ELSE TriggerSync(TRUE, currentNetworkState)
    /\ UNCHANGED <<currentNetworkState>>
    /\ lastOp' = NoOp
    /\ UNCHANGED othersOfSync

(***************************************************************************)
(* The steps of a running pass (slot s), one per await.                    *)
(***************************************************************************)
othersOfPass == <<now, nextItemId, db, listening, currentNetworkState, call>>

\* const pendingItems = await getPendingOperations(); readFails: executeSql rejects,
\* which the catch and finally blocks of triggerSync handle
\* the same read whose failure path does not reset isSyncing
ReadPendingWithoutFinally(s, readFails) ==
    /\ pass[s].pc = "getPending"
    /\ IF readFails
       THEN /\ currentSyncStatus' = [status |-> "error"]
            /\ isSyncing' = isSyncing
            /\ pass' = [pass EXCEPT ![s] = IdlePass]
       ELSE LET pendingItems == GetPendingOperations(queue, DefaultLimit)
            IN /\ pass' = [pass EXCEPT ![s].pc = "loop",
                                       ![s].pendingItems = pendingItems,
                                       ![s].processedItems = Len(pendingItems),
                                       ![s].idx = 1]
               /\ UNCHANGED <<isSyncing, currentSyncStatus>>
    /\ UNCHANGED <<queue, meters, readings, nextUuid, okReturned>>
    /\ lastOp' = NoOp
    /\ UNCHANGED othersOfPass

ReadPending(s, readFails) ==
    /\ pass[s].pc = "getPending"
    /\ IF readFails
       THEN /\ currentSyncStatus' = [status |-> "error"]
            /\ isSyncing' = FALSE
            /\ pass' = [pass EXCEPT ![s] = IdlePass]
       ELSE LET pendingItems == GetPendingOperations(queue, DefaultLimit)
            IN /\ pass' = [pass EXCEPT ![s].pc = "loop",
                                       ![s].pendingItems = pendingItems,
                                       ![s].processedItems = Len(pendingItems),
                                       ![s].idx = 1]
               /\ UNCHANGED <<isSyncing, currentSyncStatus>>
    /\ UNCHANGED <<queue, meters, readings, nextUuid, okReturned>>
    /\ lastOp' = NoOp
    /\ UNCHANGED othersOfPass

\* the loop finds reachability lost: break
AbortLoop(s) ==
    /\ pass[s].pc = "loop"
    /\ pass[s].idx <= Len(pass[s].pendingItems)
    /\ ~IsInternetReachable(currentNetworkState)
    /\ pass' = [pass EXCEPT ![s].pc = "final",
                            ![s].failedItems = Len(pass[s].pendingItems)
                                               - pass[s].completedItems]
    /\ currentSyncStatus' = [status |-> "error"]
    /\ UNCHANGED <<isSyncing, queue, meters, readings, nextUuid, okReturned>>
    /\ lastOp' = NoOp
    /\ UNCHANGED othersOfPass

\* processQueueItem up to the request: the item is marked processing with one
\* more attempt, its payload parsed, and the request sent
\* the case labels of the switch of getApiDetails; any other operationType
\* reaches its default branch, which throws
KnownOperationTypes ==
    {"CREATE_METER", "UPDATE_METER", "DELETE_METER",
     "CREATE_READING", "UPDATE_READING", "DELETE_READING",
     "CREATE_INCIDENT", "UPDATE_INCIDENT", "DELETE_INCIDENT",
     "CREATE_ROUTE", "UPDATE_ROUTE", "DELETE_ROUTE",
     "CREATE_ROUTEMETER", "UPDATE_ROUTEMETER", "DELETE_ROUTEMETER",
     "BATCH_UPDATE_ROUTEMETER_SEQUENCE", "DELETE_ROUTEMETERS_BY_ROUTEID",
     "CREATE_SETTING", "UPDATE_SETTING", "DELETE_SETTING", "UPSERT_SETTING"}

\* a payload column whose text JSON.parse rejects
UnparsablePayload == [raw |-> "not json"]

\* the null that parsePayload returns from its catch block
NoPayload == [raw |-> "null"]

parsePayload(payloadString) ==
    IF payloadString = UnparsablePayload THEN NoPayload ELSE payloadString

\* the early returns of processQueueItem before makeApiCall
ProtocolErrorOf(item) ==
    IF parsePayload(item.payload) = NoPayload THEN "Payload parse error"
    ELSE IF item.operationType \notin KnownOperationTypes THEN "API details error"
    ELSE "none"

StartItemWithoutParsing(s) ==
    /\ pass[s].pc = "loop"
    /\ pass[s].idx <= Len(pass[s].pendingItems)
    /\ IsInternetReachable(currentNetworkState)
    /\ LET item == pass[s].pendingItems[pass[s].idx]
       IN /\ queue' = UpdateQueueItemStatus(queue, item.id, "processing", 1,
                                            "UNDEFINED")
          /\ pass' = [pass EXCEPT ![s].pc = "apiCall",
                                  ![s].dispatched = Append(@, item.id)]
    /\ UNCHANGED <<isSyncing, currentSyncStatus, meters, readings, nextUuid, okReturned>>
    /\ lastOp' = NoOp
    /\ UNCHANGED othersOfPass

StartItem(s) ==
    /\ pass[s].pc = "loop"
    /\ pass[s].idx <= Len(pass[s].pendingItems)
    /\ IsInternetReachable(currentNetworkState)
    /\ ProtocolErrorOf(pass[s].pendingItems[pass[s].idx]) = "none"
    /\ LET item == pass[s].pendingItems[pass[s].idx]
       IN /\ queue' = UpdateQueueItemStatus(queue, item.id, "processing", 1,
                                            "UNDEFINED")
          /\ pass' = [pass EXCEPT ![s].pc = "apiCall",
                                  ![s].dispatched = Append(@, item.id)]
    /\ UNCHANGED <<isSyncing, currentSyncStatus, meters, readings, nextUuid, okReturned>>
    /\ lastOp' = NoOp
    /\ UNCHANGED othersOfPass

\* processQueueItem for an item that it cannot turn into a request: the item
\* is marked processing, then failed, and the loop goes on with the next item
ProtocolError(s) ==
    /\ pass[s].pc = "loop"
    /\ pass[s].idx <= Len(pass[s].pendingItems)
    /\ IsInternetReachable(currentNetworkState)
    /\ LET item == pass[s].pendingItems[pass[s].idx]
       IN /\ ProtocolErrorOf(item) # "none"
          /\ queue' = UpdateQueueItemStatus(
                          UpdateQueueItemStatus(queue, item.id, "processing", 1,
                                                "UNDEFINED"),
                          item.id, "failed", 0, ProtocolErrorOf(item))
          /\ pass' = [pass EXCEPT ![s].idx = @ + 1]
    /\ UNCHANGED <<isSyncing, currentSyncStatus, meters, readings, nextUuid, okReturned>>
    /\ lastOp' = NoOp
    /\ UNCHANGED othersOfPass

\* the failure branch counting one more attempt
ApiFailureCountingAttempt(s) ==
    /\ pass[s].pc = "apiCall"
    /\ LET item == pass[s].pendingItems[pass[s].idx]
       IN queue' = UpdateQueueItemStatus(queue, item.id, "failed", 1,
                                         "API call failure")
    /\ pass' = [pass EXCEPT ![s].pc = "loop", ![s].idx = @ + 1]
    /\ UNCHANGED <<isSyncing, currentSyncStatus, meters, readings, nextUuid, okReturned>>
    /\ lastOp' = NoOp
    /\ UNCHANGED othersOfPass

\* makeApiCall returns { success: false }
ApiFailure(s) ==
    /\ pass[s].pc = "apiCall"
    /\ LET item == pass[s].pendingItems[pass[s].idx]
       IN queue' = UpdateQueueItemStatus(queue, item.id, "failed", 0,
                                         "API call failure")
    /\ pass' = [pass EXCEPT ![s].pc = "loop", ![s].idx = @ + 1]
    /\ UNCHANGED <<isSyncing, currentSyncStatus, meters, readings, nextUuid, okReturned>>
    /\ lastOp' = NoOp
    /\ UNCHANGED othersOfPass

\* makeApiCall returns { success: true, data }: validation of the entity id,
\* handleReconciliation, and the final status of the item
\* the operations that are reconciled without a local entity id
OperationsWithoutLocalId ==
    {"BATCH_UPDATE_ROUTEMETER_SEQUENCE", "DELETE_ROUTEMETERS_BY_ROUTEID", "UPSERT_SETTING"}

\* isCreateOperation || requiresLocalEntityIdForUpdateOrDelete
RequiresLocalEntityId(operationType) ==
    operationType \notin OperationsWithoutLocalId

ApiSuccessReconcilingWithoutId(s, kind) ==
    /\ pass[s].pc = "apiCall"
    /\ LET item == pass[s].pendingItems[pass[s].idx]
           data == ResponseBody(item, kind)
           r == HandleReconciliation(item, data, meters, readings, nextUuid, now)
       IN /\ okReturned' = okReturned \cup {item.id}
          /\ IF FALSE
             THEN /\ queue' = UpdateQueueItemStatus(queue, item.id, "failed", 0,
                                                    "Missing localEntityId")
                  /\ UNCHANGED <<meters, readings, nextUuid>>
             ELSE /\ meters' = r.meters
                  /\ readings' = r.readings
                  /\ nextUuid' = IF Len(r.meters) > Len(meters)
                                 THEN nextUuid + 1 ELSE nextUuid
                  /\ queue' = IF r.threw
                              THEN UpdateQueueItemStatus(queue, item.id, "failed", 0,
                                                         "Reconciliation failed")
                              ELSE UpdateQueueItemStatus(queue, item.id, "completed", 0,
                                                         "UNDEFINED")
    /\ pass' = [pass EXCEPT ![s].pc = "loop", ![s].idx = @ + 1]
    /\ UNCHANGED <<isSyncing, currentSyncStatus>>
    /\ lastOp' = NoOp
    /\ UNCHANGED othersOfPass

ApiSuccess(s, kind) ==
    /\ pass[s].pc = "apiCall"
    /\ LET item == pass[s].pendingItems[pass[s].idx]
           data == ResponseBody(item, kind)
           r == HandleReconciliation(item, data, meters, readings, nextUuid, now)
       IN /\ okReturned' = okReturned \cup {item.id}
          /\ IF item.entityId = NULL /\ RequiresLocalEntityId(item.operationType)
             THEN /\ queue' = UpdateQueueItemStatus(queue, item.id, "failed", 0,
                                                    "Missing localEntityId")
                  /\ UNCHANGED <<meters, readings, nextUuid>>
             ELSE /\ meters' = r.meters
                  /\ readings' = r.readings
                  /\ nextUuid' = IF Len(r.meters) > Len(meters)
                                 THEN nextUuid + 1 ELSE nextUuid
                  /\ queue' = IF r.threw
                              THEN UpdateQueueItemStatus(queue, item.id, "failed", 0,
                                                         "Reconciliation failed")
                              ELSE UpdateQueueItemStatus(queue, item.id, "completed", 0,
                                                         "UNDEFINED")
    /\ pass' = [pass EXCEPT ![s].pc = "loop", ![s].idx = @ + 1]
    /\ UNCHANGED <<isSyncing, currentSyncStatus>>
    /\ lastOp' = NoOp
    /\ UNCHANGED othersOfPass

\* after the loop: const finalPendingItems = await getPendingOperations()
RefetchPending(s) ==
    /\ \/ pass[s].pc = "final"
       \/ pass[s].pc = "loop" /\ pass[s].idx > Len(pass[s].pendingItems)
    /\ LET finalPendingItems == GetPendingOperations(queue, DefaultLimit)
       IN pass' = [pass EXCEPT
             ![s].pc = "clear",
             ![s].failedItems =
                 Len(SelectSeq(finalPendingItems, LAMBDA it : it.status = "failed")),
             ![s].completedItems = pass[s].processedItems -
                 Len(SelectSeq(finalPendingItems, LAMBDA it : it.status # "completed"))]
    /\ UNCHANGED <<isSyncing, currentSyncStatus, queue, meters, readings, nextUuid,
                   okReturned>>
    /\ lastOp' = NoOp
    /\ UNCHANGED othersOfPass

\* the same end of the pass reporting an error when nothing was processed
FinishSyncEmptyIsError(s) ==
    /\ pass[s].pc = "clear"
    /\ queue' = ClearCompletedOperations(queue)
    /\ currentSyncStatus' =
          IF pass[s].failedItems > 0
          THEN [status |-> "error"]
          ELSE IF pass[s].processedItems = 0
          THEN [status |-> "error"]
          ELSE [status |-> "success"]
    /\ isSyncing' = FALSE
    /\ pass' = [pass EXCEPT ![s] = IdlePass]
    /\ okReturned' = {i \in okReturned : \E k \in 1..Len(queue') : queue'[k].id = i}
    /\ UNCHANGED <<meters, readings, nextUuid>>
    /\ lastOp' = NoOp
    /\ UNCHANGED othersOfPass

\* await clearCompletedOperations(), the final status, and the finally block
FinishSync(s) ==
    /\ pass[s].pc = "clear"
    /\ queue' = ClearCompletedOperations(queue)
    /\ currentSyncStatus' =
          IF pass[s].failedItems > 0
          THEN [status |-> "error"]
          ELSE IF pass[s].processedItems = 0
          THEN [status |-> "success"]
          ELSE [status |-> "success"]
    /\ isSyncing' = FALSE
    /\ pass' = [pass EXCEPT ![s] = IdlePass]
    /\ okReturned' = {i \in okReturned : \E k \in 1..Len(queue') : queue'[k].id = i}
    /\ UNCHANGED <<meters, readings, nextUuid>>
    /\ lastOp' = NoOp
    /\ UNCHANGED othersOfPass

(***************************************************************************)
(* Process life cycle.                                                     *)
(***************************************************************************)
\* the process is killed and launched again: module state is lost, tables stay
Restart ==
    /\ db
    /\ db' = FALSE
    /\ isSyncing' = FALSE
    /\ currentSyncStatus' = IdleStatus
    /\ currentNetworkState' = NoNet
    /\ listening' = FALSE
    /\ pass' = [s \in Slots |-> IdlePass]
    /\ lastOp' = NoOp
    /\ UNCHANGED <<queue, meters, readings, now, nextItemId, nextUuid, okReturned, call>>

\* App.tsx: openDatabase() -> createTables(), which drops and recreates the
\* Meters, Readings, Incidents, Routes and OfflineQueue tables
OpenDatabase ==
    /\ ~db
    /\ db' = TRUE
    /\ queue' = <<>>
    /\ meters' = <<>>
    /\ readings' = <<>>
    /\ okReturned' = {}
    /\ lastOp' = NoOp
    /\ UNCHANGED <<now, nextItemId, nextUuid, syncVars, currentNetworkState, listening,
                   call>>

Next ==
    \/ \E sn \in Serials, qf \in BOOLEAN : AddMeter(sn, qf)
    \/ \E i \in 1..Len(meters), sn \in Serials, qf \in BOOLEAN :
          UpdateMeter(meters[i].id, sn, qf)
    \/ \E i \in 1..Len(meters), qf \in BOOLEAN : DeleteMeter(meters[i].id, qf)
    \/ \E i \in 1..Len(meters), qf \in BOOLEAN : AddReading(meters[i].id, qf)
    \/ \E net \in NetStates : InitializeSyncService(net)
    \/ \E net \in NetStates : NetInfoEvent(net)
    \/ PeriodicTimer
    \/ ManualTriggerSync
    \/ \E s \in Slots, f \in BOOLEAN : ReadPending(s, f)
    \/ \E s \in Slots : AbortLoop(s)
    \/ \E s \in Slots : StartItem(s)
    \/ \E s \in Slots : ApiFailure(s)
    \/ \E s \in Slots, kind \in BodyKinds : ApiSuccess(s, kind)
    \/ \E s \in Slots : RefetchPending(s)
    \/ \E s \in Slots : FinishSync(s)
    \/ Restart
    \/ OpenDatabase

Spec == Init /\ [][Next]_vars

(***************************************************************************)
(* Properties.                                                             *)
(***************************************************************************)
ActiveSlots == {s \in Slots : pass[s].pc # "idle"}

\* a step that is a call of triggerSync by one of its three callers
TriggerStep ==
    \/ PeriodicTimer
    \/ ManualTriggerSync /\ IsInternetReachable(currentNetworkState)
    \/ \E net \in NetStates :
          /\ NetInfoEvent(net)
          /\ net.isConnected /\ net.isInternetReachable
          /\ ~IsInternetReachable(currentNetworkState)

\* C1: at most one sync pass is active at a time, and a triggerSync call made
\* while isSyncing is true starts no pass, reads and changes no queue item and
\* dispatches no request.
SingleFlight ==
    /\ [](Cardinality(ActiveSlots) <= 1)
    /\ [][(isSyncing /\ TriggerStep) =>
            UNCHANGED <<queue, meters, readings, pass, okReturned, isSyncing>>]_vars

\* C1: a manual trigger has been refused ("already in progress") while the one
\* pass is waiting for the response to a request
SingleFlightWitness ==
    /\ isSyncing
    /\ currentSyncStatus.status = "idle"
    /\ \E s \in Slots : ActiveSlots = {s} /\ pass[s].pc = "apiCall"

\* C2: every item that is not completed when the process is killed is still in
\* the queue once the restarted application has opened the database.
ItemsSurviveRestart ==
    [][(~db /\ db') =>
         \A i \in 1..Len(queue) :
            queue[i].status # "completed" =>
               \E k \in 1..Len(queue') : queue'[k].id = queue[i].id]_vars

\* C3: no mutation returns success when it has changed the local record and
\* no queue item for the change was persisted.
EnqueueFailurePropagates ==
    (lastOp.changed /\ ~lastOp.queued) => lastOp.returned = "threw"

\* C5: no request is dispatched for an item whose remote call has already
\* returned success.
NoDuplicatedDelivery ==
    [][\A s \in Slots :
         (pass[s].pc = "loop" /\ pass'[s].pc = "apiCall") =>
            pass[s].pendingItems[pass[s].idx].id \notin okReturned]_vars

\* the pass of slot s took Create, Update, Delete of one meter, in this order,
\* every remote call has succeeded and the loop is over
CreateUpdateDeletePassDone(s) ==
    LET items == pass[s].pendingItems IN
    /\ pass[s].pc = "clear"
    /\ Len(items) = 3
    /\ pass[s].idx = 4
    /\ items[1].operationType = "CREATE_METER"
    /\ items[2].operationType = "UPDATE_METER"
    /\ items[3].operationType = "DELETE_METER"
    /\ items[2].entityId = items[1].entityId
    /\ items[3].entityId = items[1].entityId
    /\ \A j \in 1..3 : items[j].id \in okReturned

\* C7: after a full pass over Create, Update, Delete of one entity in which
\* every remote call succeeds, no local record of the entity is left, under its
\* local id or under a server id, and the three items are completed.
CreateUpdateDeleteLeavesNothing ==
    \A s \in Slots :
       CreateUpdateDeletePassDone(s) =>
          /\ \A i \in 1..Len(meters) :
                /\ meters[i].id # pass[s].pendingItems[1].entityId
                /\ meters[i].serverId = NULL
          /\ \A j \in 1..3 : \A k \in 1..Len(queue) :
                queue[k].id = pass[s].pendingItems[j].id => queue[k].status = "completed"

\* the pass of slot s has left its loop because reachability was lost
Aborted(s) ==
    /\ pass[s].pc \in {"final", "clear"}
    /\ pass[s].idx <= Len(pass[s].pendingItems)

\* C8: the items a pass had not started when it stopped on lost reachability
\* keep the status, attempts and errorDetails they had when the pass read them.
AbortLeavesUnstartedItems ==
    \A s \in Slots :
       Aborted(s) =>
          \A j \in pass[s].idx..Len(pass[s].pendingItems) :
             \E k \in 1..Len(queue) :
                /\ queue[k].id = pass[s].pendingItems[j].id
                /\ queue[k].status = pass[s].pendingItems[j].status
                /\ queue[k].attempts = pass[s].pendingItems[j].attempts
                /\ queue[k].errorDetails = pass[s].pendingItems[j].errorDetails

\* C8: a pass stopped after its first item; an item it had not started was
\* failed by an earlier pass
AbortWitness ==
    \E s \in Slots :
       /\ Aborted(s)
       /\ pass[s].idx = 2
       /\ \E j \in 2..Len(pass[s].pendingItems) :
             /\ pass[s].pendingItems[j].status = "failed"
             /\ pass[s].pendingItems[j].attempts = 1

\* C9: a pass that stopped because reachability was lost ends with status error.
AbortReportsError ==
    [][\A s \in Slots :
         (Aborted(s) /\ pass[s].pc = "clear" /\ pass'[s].pc = "idle" /\ db') =>
            currentSyncStatus'.status = "error"]_vars

(***************************************************************************)
(* getPendingOperations on any content of the OfflineQueue table, called   *)
(* directly and by the passes of the engine.                               *)
(***************************************************************************)
Reachable == [isConnected |-> TRUE, isInternetReachable |-> TRUE]

\* the row of a DELETE_METER operation in any status the column can hold
QueueRow(id, status, timestamp) ==
    [NewQueueItem(id, "DELETE_METER", [id |-> id, serialNumber |-> NULL, meterId |-> NULL],
                  id, "Meter", NULL, timestamp) EXCEPT !.status = status]

QueueContents ==
    UNION {{[i \in 1..n |-> QueueRow(i, st[i], ts[i])] :
               st \in [1..n -> QueueStatuses], ts \in [1..n -> 0..MaxTime]} :
           n \in 0..MaxItems}

InitPending ==
    /\ queue \in QueueContents
    /\ meters = <<>>
    /\ readings = <<>>
    /\ now = MaxTime
    /\ nextItemId = MaxItems + 1
    /\ nextUuid = 1
    /\ db = TRUE
    /\ isSyncing = FALSE
    /\ currentSyncStatus = IdleStatus
    /\ currentNetworkState = Reachable
    /\ listening = TRUE
    /\ pass = [s \in Slots |-> IdlePass]
    /\ okReturned = {}
    /\ lastOp = NoOp
    /\ call = NoCall

\* a caller other than the engine runs getPendingOperations(limit)
CallGetPendingOperations(limit) ==
    /\ call = NoCall
    /\ call' = [fn |-> "getPendingOperations", limit |-> limit,
                result |-> GetPendingOperations(queue, limit)]
    /\ UNCHANGED <<queue, meters, readings, now, nextItemId, nextUuid, db, syncVars,
                   currentNetworkState, listening, okReturned, lastOp>>

NextPending ==
    \/ \E limit \in 0..MaxItems : CallGetPendingOperations(limit)
    \/ PeriodicTimer
    \/ \E s \in Slots, f \in BOOLEAN : ReadPending(s, f)
    \/ \E s \in Slots : StartItem(s)
    \/ \E s \in Slots : ApiFailure(s)
    \/ \E s \in Slots, kind \in BodyKinds : ApiSuccess(s, kind)
    \/ \E s \in Slots : RefetchPending(s)
    \/ \E s \in Slots : FinishSync(s)

SpecPending == InitPending /\ [][NextPending]_vars

IsReady(r) == r.status = "pending" \/ r.status = "failed"

\* res is what the contract allows for table q and this limit
Selected(q, limit, res) ==
    LET ready == {i \in 1..Len(q) : IsReady(q[i])}
        taken == {i \in ready : \E j \in 1..Len(res) : res[j] = q[i]}
    IN  /\ \A j \in 1..Len(res) : \E i \in ready : res[j] = q[i]
        /\ \A j, k \in 1..Len(res) : j < k =>
              /\ res[j].id # res[k].id
              /\ res[j].timestamp <= res[k].timestamp
        /\ Len(res) = Min(limit, Cardinality(ready))
        /\ \A i \in ready \ taken : \A j \in 1..Len(res) :
              res[j].timestamp <= q[i].timestamp

\* C6: getPendingOperations(limit) returns exactly the pending and failed
\* items, oldest first, cut to the limit oldest ones, never an item that is
\* processing, completed or retrying; and a pass dispatches what it read in
\* that order.
PendingOperationsContract ==
    /\ [](\A s \in Slots :
            /\ Len(pass[s].dispatched) <= Len(pass[s].pendingItems)
            /\ \A j \in 1..Len(pass[s].dispatched) :
                  pass[s].dispatched[j] = pass[s].pendingItems[j].id)
    /\ [][/\ call' # call => Selected(queue, call'.limit, call'.result)
          /\ \A s \in Slots :
               (pass[s].pc = "getPending" /\ pass'[s].pc = "loop") =>
                  Selected(queue, DefaultLimit, pass'[s].pendingItems)]_vars

\* C6: a call whose result was cut to a limit of two and is not in rowid order
PendingOperationsWitness ==
    /\ call # NoCall
    /\ call.limit = 2
    /\ Len(call.result) = 2
    /\ call.result[1].id > call.result[2].id
    /\ Len(SelectSeq(queue, IsReady)) > 2

(***************************************************************************)
(* The reconcile functions applied twice with the same arguments to any    *)
(* content of the table of their entity kind.                              *)
(***************************************************************************)
FnServerIds == {MaxUuid, 101}
FnSerials == {11, 12}
FnVersions == {0, 1}

\* the column values of the tables of at most MaxUuid rows; the row of
\* position i gets id i
TablesOf(fieldSets) == UNION {[1..n -> fieldSets] : n \in 0..MaxUuid}

MeterRow(id, f) ==
    [id |-> id, serverId |-> f[1], serialNumber |-> f[2], version |-> f[3],
     syncStatus |-> f[4], lastModified |-> f[5]]

MeterTables ==
    {t \in {[i \in DOMAIN f |-> MeterRow(i, f[i])] :
        f \in TablesOf({NULL, 101} \X FnSerials \X FnVersions \X {"pending", "synced"} \X {0, 2})} :
        \A i, j \in 1..Len(t) : i # j => t[i].serialNumber # t[j].serialNumber}

ServerMeters ==
    {[id |-> 101, serialNumber |-> sn, version |-> v, updatedAt |-> u] :
        sn \in {NULL} \cup FnSerials, v \in {NULL} \cup FnVersions, u \in {NULL, 1500}}

ReadingRow(id, f) ==
    [id |-> id, meterId |-> 1, serverId |-> f[1], version |-> f[2],
     syncStatus |-> f[3], lastModified |-> 0]

ReadingTables ==
    {[i \in DOMAIN f |-> ReadingRow(i, f[i])] :
        f \in TablesOf({NULL, 101} \X FnVersions \X {"pending", "synced"})}

ServerReadings ==
    {[id |-> sid, meterId |-> m, version |-> v, updatedAt |-> NULL] :
        sid \in FnServerIds, m \in {NULL, 1}, v \in {NULL} \cup FnVersions}

RouteRow(id, f) ==
    [id |-> id, serverId |-> f[1], name |-> 21, version |-> f[2],
     syncStatus |-> f[3], lastModified |-> 0]

RouteTables ==
    {[i \in DOMAIN f |-> RouteRow(i, f[i])] :
        f \in TablesOf({NULL, 101} \X FnVersions \X {"pending", "synced"})}

ServerRoutes ==
    {[id |-> sid, name |-> n, version |-> v, updatedAt |-> NULL] :
        sid \in {NULL} \cup FnServerIds, n \in {NULL, 21, 22},
        v \in {NULL} \cup FnVersions}

IncidentRow(id, f) ==
    [id |-> id, version |-> f[1], syncStatus |-> f[2], lastModified |-> 0]

IncidentTables ==
    {[i \in DOMAIN f |-> IncidentRow(i, f[i])] :
        f \in TablesOf(FnVersions \X {"pending", "synced"})}

ServerIncidents == {[id |-> sid, version |-> v] : sid \in {NULL, 101}, v \in FnVersions}

RouteMeterRow(id, f) ==
    [routeId |-> 1, meterId |-> id, sequenceOrder |-> f[1], syncStatus |-> f[2],
     lastModified |-> 0]

RouteMeterTables ==
    {[i \in DOMAIN f |-> RouteMeterRow(i, f[i])] :
        f \in TablesOf({1, 2} \X {"pending", "synced", "error"})}

ServerRouteMeters ==
    {[id |-> 101, routeId |-> 1, meterId |-> m, sequenceOrder |-> o, version |-> v,
      updatedAt |-> 1500] :
        m \in 1..(MaxUuid + 1), o \in {1, 2}, v \in {NULL} \cup FnVersions}

SettingRow(id, f) == [id |-> id, value |-> f[1], lastModified |-> f[2]]

SettingTables ==
    {[i \in DOMAIN f |-> SettingRow(i, f[i])] :
        f \in TablesOf({31, 32} \X {0, 2})}

ServerSettings ==
    {[key |-> k, value |-> v, updatedAt |-> u] :
        k \in {NULL} \cup (1..(MaxUuid + 1)), v \in {NULL, 31, 32}, u \in {NULL, 1500}}

\* call is a call of one of the functions fns, not yet applied
IsReconcileCall(fns, tables, servers) ==
    \E f \in fns, t \in tables, l \in 1..(MaxUuid + 1), sv \in servers :
       call = [fn |-> f, store |-> t, localId |-> l, server |-> sv,
               applied |-> 0, once |-> <<>>]

InitReconcile ==
    /\ queue = <<>>
    /\ meters = <<>>
    /\ readings = <<>>
    /\ now = MaxTime
    /\ nextItemId = 1
    /\ nextUuid = MaxUuid + 2
    /\ db = TRUE
    /\ isSyncing = FALSE
    /\ currentSyncStatus = IdleStatus
    /\ currentNetworkState = NoNet
    /\ listening = FALSE
    /\ pass = [s \in Slots |-> IdlePass]
    /\ okReturned = {}
    /\ lastOp = NoOp
    /\ \/ IsReconcileCall({"reconcileCreatedMeter", "reconcileUpdatedMeter"},
                          MeterTables, ServerMeters)
       \/ IsReconcileCall({"reconcileCreatedReading", "reconcileUpdatedReading"},
                          ReadingTables, ServerReadings)
       \/ IsReconcileCall({"reconcileCreatedRoute", "reconcileUpdatedRoute"},
                          RouteTables, ServerRoutes)
       \/ IsReconcileCall({"reconcileCreatedIncident", "reconcileUpdatedIncident"},
                          IncidentTables, ServerIncidents)
       \/ IsReconcileCall({"reconcileCreatedRouteMeter", "reconcileUpdatedRouteMeter"},
                          RouteMeterTables, ServerRouteMeters)
       \/ IsReconcileCall({"reconcileUpsertedSetting"}, SettingTables, ServerSettings)

\* the table, and the queued operations, after c.fn(c.localId, c.server) on c.store
Reconciled(c, newId, t) ==
    LET none == <<>> IN
    CASE c.fn = "reconcileCreatedMeter" ->
            [store |-> ReconcileCreatedMeter(c.store, c.localId, c.server, newId, t).meters,
             enqueued |-> none]
      [] c.fn = "reconcileUpdatedMeter" ->
            [store |-> ReconcileUpdatedMeter(c.store, c.localId, c.server, newId, t).meters,
             enqueued |-> none]
      [] c.fn = "reconcileCreatedReading" ->
            [store |-> ReconcileCreatedReading(c.store, c.localId, c.server, t).readings,
             enqueued |-> none]
      [] c.fn = "reconcileUpdatedReading" ->
            [store |-> ReconcileUpdatedReading(c.store, c.localId, c.server, t).readings,
             enqueued |-> none]
      [] c.fn = "reconcileCreatedRoute" ->
            [store |-> ReconcileCreatedRoute(c.store, c.localId, c.server, t).routes,
             enqueued |-> ReconcileCreatedRoute(c.store, c.localId, c.server, t).enqueued]
      [] c.fn = "reconcileUpdatedRoute" ->
            [store |-> ReconcileUpdatedRoute(c.store, c.localId, c.server, t).routes,
             enqueued |-> ReconcileUpdatedRoute(c.store, c.localId, c.server, t).enqueued]
      [] c.fn = "reconcileCreatedIncident" ->
            [store |-> ReconcileCreatedIncident(c.store, c.localId, c.server, t).incidents,
             enqueued |-> none]
      [] c.fn = "reconcileUpdatedIncident" ->
            [store |-> ReconcileUpdatedIncident(c.store, c.localId, c.server, t).incidents,
             enqueued |-> none]
      [] c.fn = "reconcileCreatedRouteMeter" ->
            LET r == ReconcileCreatedRouteMeter(c.store, c.localId, c.server, t)
            IN  [store |-> r.routeMeters, enqueued |-> r.enqueued]
      [] c.fn = "reconcileUpdatedRouteMeter" ->
            LET r == ReconcileUpdatedRouteMeter(c.store, 1, c.localId, c.server, t)
            IN  [store |-> r.routeMeters, enqueued |-> r.enqueued]
      [] c.fn = "reconcileUpsertedSetting" ->
            [store |-> ReconcileUpsertedSetting(c.store, c.localId, c.server, t).settings,
             enqueued |-> none]

\* one application of the reconcile function of the call, with the same
\* local id and the same remote data as the one before
ApplyReconcile ==
    /\ call.applied < 2
    /\ LET r == Reconciled(call, nextUuid, now)
       IN /\ call' = [call EXCEPT !.store = r.store,
                                  !.applied = @ + 1,
                                  !.once = IF call.applied = 0 THEN r.store ELSE @]
          /\ queue' = queue \o
                [k \in 1..Len(r.enqueued) |->
                    NewQueueItem(nextItemId + k - 1, r.enqueued[k].operationType,
                                 [id |-> r.enqueued[k].entityId, serialNumber |-> NULL,
                                  meterId |-> NULL],
                                 r.enqueued[k].entityId,
                                 IF r.enqueued[k].operationType = "UPDATE_ROUTE"
                                 THEN "Route" ELSE "RouteMeter",
                                 NULL, now)]
          /\ nextItemId' = nextItemId + Len(r.enqueued)
    /\ nextUuid' = nextUuid + 1
    /\ UNCHANGED <<meters, readings, now, db, syncVars, currentNetworkState, listening,
                   okReturned, lastOp>>

NextReconcile == ApplyReconcile

SpecReconcile == InitReconcile /\ [][NextReconcile]_vars

\* what the claim compares: the records with their id, serverId, version,
\* syncStatus and domain fields, that is every column but lastModified
StoreView(t) == [i \in 1..Len(t) |-> [t[i] EXCEPT !.lastModified = 0]]

\* C10: for every entity kind, reconcileCreated and reconcileUpdated applied
\* twice with the same local id and remote data leave the table as one
\* application does, also when the local record does not exist.
ReconcileIdempotent ==
    call.applied = 2 => StoreView(call.store) = StoreView(call.once)

\* C10: reconcileCreatedMeter was applied twice for a local id without record,
\* and the first application has inserted the server's record
ReconcileIdempotentWitness ==
    /\ call.applied = 2
    /\ call.fn = "reconcileCreatedMeter"
    /\ call.localId = MaxUuid + 1
    /\ \E i \in 1..Len(call.once) : call.once[i].id = MaxUuid + 2

(***************************************************************************)
(* Passes over a queue that holds operations the remote authority refuses  *)
(* on every attempt, and one operation it accepts, enqueued last.  The     *)
(* device stays reachable and the interval keeps calling triggerSync.      *)
(***************************************************************************)
\* the remote authority refuses every operation on the first meter
ServerRefuses(item) == item.entityId = 1

\* n operations on the first meter, then the creation of the second meter
LiveQueue(n) ==
    [k \in 1..(n + 1) |->
        IF k <= n
        THEN NewQueueItem(k, IF k = 1 THEN "CREATE_METER" ELSE "UPDATE_METER",
                          [id |-> 1, serialNumber |-> 11, meterId |-> NULL],
                          1, "Meter", NULL, 0)
        ELSE NewQueueItem(k, "CREATE_METER",
                          [id |-> 2, serialNumber |-> 12, meterId |-> NULL],
                          2, "Meter", NULL, MaxTime)]

InitLive ==
    /\ \E n \in {DefaultLimit - 1, DefaultLimit} :
          /\ queue = LiveQueue(n)
          /\ nextItemId = n + 2
    /\ meters = [i \in 1..2 |->
                    [id |-> i, serverId |-> NULL, serialNumber |-> 10 + i, version |-> 0,
                     syncStatus |-> "pending", lastModified |-> 0]]
    /\ readings = <<>>
    /\ now = MaxTime
    /\ nextUuid = 3
    /\ db = TRUE
    /\ isSyncing = FALSE
    /\ currentSyncStatus = IdleStatus
    /\ currentNetworkState = Reachable
    /\ listening = TRUE
    /\ pass = [s \in Slots |-> IdlePass]
    /\ okReturned = {}
    /\ lastOp = NoOp
    /\ call = NoCall

\* the item whose request the pass of slot s has sent
InFlight(s) == pass[s].pendingItems[pass[s].idx]

RefusedCall(s) ==
    /\ pass[s].pc = "apiCall"
    /\ ServerRefuses(InFlight(s))
    /\ ApiFailure(s)

AcceptedCall(s, kind) ==
    /\ pass[s].pc = "apiCall"
    /\ ~ServerRefuses(InFlight(s))
    /\ ApiSuccess(s, kind)

NextLive ==
    \/ PeriodicTimer
    \/ \E s \in Slots : ReadPending(s, FALSE)
    \/ \E s \in Slots : StartItem(s)
    \/ \E s \in Slots : RefusedCall(s)
    \/ \E s \in Slots, kind \in BodyKinds : AcceptedCall(s, kind)
    \/ \E s \in Slots : RefetchPending(s)
    \/ \E s \in Slots : FinishSync(s)

\* the interval fires again and again and every await of a pass settles
SpecLive == InitLive /\ [][NextLive]_vars /\ WF_vars(NextLive)

\* C4: every queued operation whose remote call and reconciliation succeed
\* whenever attempted is eventually dispatched and marked completed, whatever
\* other operations, among them ones that fail on every attempt, are queued.
EventualDelivery ==
    \A i \in {DefaultLimit, DefaultLimit + 1} :
        (\E k \in 1..Len(queue) : queue[k].id = i /\ ~ServerRefuses(queue[k]))
        ~> (\E k \in 1..Len(queue) : queue[k].id = i /\ queue[k].status = "completed")

(***************************************************************************)
(* Properties of the reconcile functions, over SpecReconcile.              *)
(***************************************************************************)
CreatedWithServerId ==
    {"reconcileCreatedMeter", "reconcileCreatedReading", "reconcileCreatedRoute"}

\* the local record of call c exists, and the id of the remote data is the
\* serverId of exactly one record, another one
OwnedByOther(c) ==
    /\ c.server.id # NULL
    /\ \E i \in 1..Len(c.store) : c.store[i].id = c.localId
    /\ Cardinality({i \in 1..Len(c.store) : c.store[i].serverId = c.server.id}) = 1
    /\ \A i \in 1..Len(c.store) :
          c.store[i].serverId = c.server.id => c.store[i].id # c.localId

\* C11: when reconcileCreated receives remote data whose id is already owned
\* by a different local record, the record being reconciled is marked
\* conflicted and does not get that server id, so that no two local records
\* carry the same serverId.
DuplicateCreationGuard ==
    [][(call.fn \in CreatedWithServerId /\ call.applied = 0 /\ OwnedByOther(call)) =>
          /\ \A i \in 1..Len(call'.store) :
                call.store[i].id = call.localId =>
                   /\ call'.store[i].syncStatus = "conflicted"
                   /\ call'.store[i].serverId # call.server.id
          /\ \A i, j \in 1..Len(call'.store) :
                (i # j /\ call'.store[i].serverId # NULL) =>
                   call'.store[i].serverId # call'.store[j].serverId]_vars

UpdatedWithVersion ==
    {"reconcileUpdatedMeter", "reconcileUpdatedReading", "reconcileUpdatedRoute",
     "reconcileUpdatedIncident"}

\* the remote data of call c carries a version lower than the one of the
\* local record of the call
VersionRegression(c) ==
    /\ c.server.version # NULL
    /\ \E i \in 1..Len(c.store) :
          /\ c.store[i].id = c.localId
          /\ c.store[i].version # NULL
          /\ c.server.version < c.store[i].version

\* C12: for every entity kind, when reconcileUpdated receives remote data
\* whose version is lower than the local record's, the server's version and
\* values are applied to the local record.
VersionRegressionApplied ==
    [][(call.fn \in UpdatedWithVersion /\ call.applied = 0 /\ VersionRegression(call)) =>
          \A i \in 1..Len(call.store) :
             call.store[i].id = call.localId =>
                call'.store[i].version = call.server.version]_vars

\* the records of table t that are conflicted
ConflictedRows(t) ==
    {i \in 1..Len(t) :
        /\ {"id", "syncStatus"} \subseteq DOMAIN t[i]
        /\ t[i].syncStatus = "conflicted"}

\* C13: once a record is conflicted, no reconciliation step changes its
\* syncStatus and the engine queues no operation that would send it to the
\* remote side again.
ConflictedIsTerminal ==
    /\ [](\A i \in ConflictedRows(call.store) :
             \A k \in 1..Len(queue) :
                queue[k].entityId = call.store[i].id => queue[k].status = "completed")
    /\ [][\A i \in ConflictedRows(call.store) :
             call'.store[i].syncStatus = "conflicted"]_vars

(***************************************************************************)
(* Properties of the entity records and the queue, over Spec.              *)
(***************************************************************************)
\* the queue items that reference meter m and are not completed
OpenItemsOf(m) ==
    {k \in 1..Len(queue) :
        /\ queue[k].entityType = "Meter"
        /\ queue[k].entityId = m.id
        /\ queue[k].status # "completed"}

\* C14: a record is pending exactly when a non-completed queue item references
\* it; stated for its consequence that a meter with a pending or failed queue
\* item has not been marked synced by the reconciliation of an earlier item.
PendingWhileQueued ==
    \A i \in 1..Len(meters) :
       (\E k \in OpenItemsOf(meters[i]) : queue[k].status \in {"pending", "failed"})
          => meters[i].syncStatus # "synced"


\* the reconcile functions of the kinds whose table has serverId and version
VersionedReconcile ==
    {"reconcileCreatedMeter", "reconcileUpdatedMeter", "reconcileCreatedReading",
     "reconcileUpdatedReading", "reconcileCreatedRoute", "reconcileUpdatedRoute"}

\* C15: a record with syncStatus synced has its serverId set and the version
\* of the most recent successful remote response for it: when a reconcile
\* function, called with the response of the remote call, turns the pending
\* record of the local id into a synced one, the record carries a serverId
\* and the version of that response.
SyncedCarriesResponse ==
    [][(call.fn \in VersionedReconcile /\ call.applied = 0) =>
        \A i \in 1..Len(call.store) :
            (/\ call.store[i].id = call.localId
             /\ call.store[i].syncStatus = "pending"
             /\ call'.store[i].syncStatus = "synced") =>
                /\ call'.store[i].serverId # NULL
                /\ call'.store[i].version = call.server.version]_vars

\* the columns of a queue item that addOperationToQueue writes and that stay
Identity(r) ==
    <<r.id, r.operationType, r.payload, r.entityId, r.entityType, r.relatedEntityId,
      r.timestamp>>

\* the positions of the queue whose item is still queued after the step with
\* another content
ChangedItems ==
    {i \in 1..Len(queue) :
        \E j \in 1..Len(queue') : queue'[j].id = queue[i].id /\ queue'[j] # queue[i]}

\* C16: no step changes the id, operationType, payload, entityId, entityType,
\* relatedEntityId or creation timestamp of an item that stays queued, and
\* a step changes the status, attempts and errorDetails of at most one item.
QueueItemsImmutable ==
    [][/\ \A i \in 1..Len(queue), j \in 1..Len(queue') :
             queue'[j].id = queue[i].id => Identity(queue'[j]) = Identity(queue[i])
       /\ Cardinality(ChangedItems) <= 1]_vars

\* C16: an item was marked failed after one attempt while an item created
\* later by another operation is still as addOperationToQueue wrote it
QueueItemsImmutableWitness ==
    \E i, j \in 1..Len(queue) :
        /\ queue[i].status = "failed" /\ queue[i].attempts = 1
        /\ queue[i].errorDetails = "API call failure"
        /\ queue[j].status = "pending" /\ queue[j].attempts = 0
        /\ queue[j].id > queue[i].id

\* the positions of the queue whose item is no longer queued after the step
RemovedItems ==
    {i \in 1..Len(queue) : \A j \in 1..Len(queue') : queue'[j].id # queue[i].id}

\* C17: an item leaves the queue only after it has been marked completed:
\* every item a step removes had the status completed before the step, and
\* the clearCompletedOperations of a pass removes every completed item.
OnlyCompletedItemsLeave ==
    [][/\ \A i \in RemovedItems : queue[i].status = "completed"
       /\ (\E s \in Slots : pass[s].pc = "clear" /\ pass'[s].pc # "clear") =>
             \A j \in 1..Len(queue') : queue'[j].status # "completed"]_vars

\* C18: when the remote call for an item fails, the item stays in the queue
\* marked failed with the error recorded, keeps the attempts value the start
\* of the attempt gave it, is selected by the next getPendingOperations, and
\* no entity record changes.
TransportFailureKeepsItem ==
    [][\A s \in Slots : ApiFailure(s) =>
          /\ \E k \in 1..Len(queue) : queue[k].id = InFlight(s).id
          /\ \A k \in 1..Len(queue) : queue[k].id = InFlight(s).id =>
                /\ k <= Len(queue') /\ queue'[k].id = queue[k].id
                /\ queue'[k].status = "failed"
                /\ queue'[k].errorDetails = "API call failure"
                /\ queue'[k].attempts = queue[k].attempts
                /\ queue'[k].attempts = Min(MaxAttempts, InFlight(s).attempts + 1)
                /\ \E p \in 1..Len(GetPendingOperations(queue', DefaultLimit)) :
                      GetPendingOperations(queue', DefaultLimit)[p] = queue'[k]
          /\ meters' = meters
          /\ readings' = readings]_vars

\* C18: the remote call for the item of a meter has failed: the item is
\* failed after its first attempt and the meter it refers to is still pending
TransportFailureWitness ==
    \E k \in 1..Len(queue), i \in 1..Len(meters) :
        /\ queue[k].status = "failed"
        /\ queue[k].errorDetails = "API call failure"
        /\ queue[k].attempts = 1
        /\ queue[k].entityType = "Meter"
        /\ meters[i].id = queue[k].entityId
        /\ meters[i].syncStatus = "pending"
        /\ \E s \in Slots : pass[s].pc = "loop" /\ pass[s].idx > 1

\* whether c.fn(c.localId, c.server) on c.store throws
ReconcileThrew(c, newId, t) ==
    CASE c.fn = "reconcileCreatedMeter" ->
            ReconcileCreatedMeter(c.store, c.localId, c.server, newId, t).threw
      [] c.fn = "reconcileUpdatedMeter" ->
            ReconcileUpdatedMeter(c.store, c.localId, c.server, newId, t).threw
      [] c.fn = "reconcileCreatedReading" ->
            ReconcileCreatedReading(c.store, c.localId, c.server, t).threw
      [] c.fn = "reconcileUpdatedReading" ->
            ReconcileUpdatedReading(c.store, c.localId, c.server, t).threw
      [] c.fn = "reconcileCreatedRoute" ->
            ReconcileCreatedRoute(c.store, c.localId, c.server, t).threw
      [] c.fn = "reconcileUpdatedRoute" ->
            ReconcileUpdatedRoute(c.store, c.localId, c.server, t).threw
      [] c.fn = "reconcileCreatedIncident" ->
            ReconcileCreatedIncident(c.store, c.localId, c.server, t).threw
      [] c.fn = "reconcileUpdatedIncident" ->
            ReconcileUpdatedIncident(c.store, c.localId, c.server, t).threw
      [] c.fn = "reconcileCreatedRouteMeter" ->
            ReconcileCreatedRouteMeter(c.store, c.localId, c.server, t).threw
      [] c.fn = "reconcileUpdatedRouteMeter" ->
            ReconcileUpdatedRouteMeter(c.store, 1, c.localId, c.server, t).threw
      [] c.fn = "reconcileUpsertedSetting" ->
            ReconcileUpsertedSetting(c.store, c.localId, c.server, t).threw

\* the reconcile functions of the kinds whose records have an id and a syncStatus
ReconcileOfRecord ==
    {"reconcileCreatedMeter", "reconcileUpdatedMeter", "reconcileCreatedReading",
     "reconcileUpdatedReading", "reconcileCreatedRoute", "reconcileUpdatedRoute",
     "reconcileCreatedIncident", "reconcileUpdatedIncident"}

\* C19: for every entity kind, when the reconcile function throws, the local
\* record it was called for ends with syncStatus error.
ReconcileFailureMarksError ==
    [][(/\ call.fn \in ReconcileOfRecord
        /\ call.applied = 0
        /\ ReconcileThrew(call, nextUuid, now)) =>
          \A i \in 1..Len(call'.store) :
              call'.store[i].id = call.localId => call'.store[i].syncStatus = "error"]_vars

(***************************************************************************)
(* Passes over a queue that holds the operation of one reading, with any   *)
(* content of the Readings table and responses that carry the server id of *)
(* another local record or an older version.                               *)
(***************************************************************************)
ConflictVersions == {0, 1, 2}

ConflictReadingTables ==
    {t \in {[i \in DOMAIN f |-> ReadingRow(i, f[i])] :
              f \in TablesOf({NULL, 101} \X ConflictVersions \X {"pending", "synced"})} :
        Len(t) >= 1}

\* the ids a response can carry: none, a fresh server id, the id of a local record
ConflictBodyKinds == BodyKinds \cup {MaxUuid}

InitConflict ==
    /\ \E op \in {"CREATE_READING", "UPDATE_READING"} :
          queue = <<NewQueueItem(1, op, [id |-> 1, serialNumber |-> NULL, meterId |-> 1],
                                 1, "Reading", 1, 0)>>
    /\ nextItemId = 2
    /\ meters = <<>>
    /\ readings \in ConflictReadingTables
    /\ now = MaxTime
    /\ nextUuid = MaxUuid + 1
    /\ db = TRUE
    /\ isSyncing = FALSE
    /\ currentSyncStatus = IdleStatus
    /\ currentNetworkState = Reachable
    /\ listening = TRUE
    /\ pass = [s \in Slots |-> IdlePass]
    /\ okReturned = {}
    /\ lastOp = NoOp
    /\ call = NoCall

NextConflict ==
    \/ PeriodicTimer
    \/ \E s \in Slots : ReadPending(s, FALSE)
    \/ \E s \in Slots : StartItem(s)
    \/ \E s \in Slots : ApiFailure(s)
    \/ \E s \in Slots, kind \in ConflictBodyKinds : ApiSuccess(s, kind)
    \/ \E s \in Slots : RefetchPending(s)
    \/ \E s \in Slots : FinishSync(s)

SpecConflict == InitConflict /\ [][NextConflict]_vars

\* the step of slot s ends the processing of an item by marking its reading
\* conflicted
MarksConflicted(s) ==
    /\ pass[s].pc = "apiCall"
    /\ pass'[s].pc = "loop"
    /\ \E i \in 1..Len(readings) :
          /\ readings[i].id = InFlight(s).entityId
          /\ readings[i].syncStatus # "conflicted"
          /\ readings'[i].syncStatus = "conflicted"

\* C20: when the remote call succeeded and reconciliation marks the reading
\* conflicted, the queue item is marked completed, not failed, and once the
\* pass has ended the item is no longer in the queue.
ConflictCompletesItem ==
    /\ [][\A s \in Slots : MarksConflicted(s) =>
             \E k \in 1..Len(queue') :
                 /\ queue'[k].id = InFlight(s).id
                 /\ queue'[k].status = "completed"]_vars
    /\ []((~isSyncing /\ \E i \in 1..Len(readings) : readings[i].syncStatus = "conflicted")
             => queue = <<>>)

\* C20: the response of an UPDATE_READING carried an older version: the
\* reading is conflicted and its item completed, the pass not yet ended
ConflictCompletesItemWitness ==
    /\ isSyncing
    /\ \E k \in 1..Len(queue), i \in 1..Len(readings) :
          /\ queue[k].operationType = "UPDATE_READING"
          /\ queue[k].status = "completed"
          /\ readings[i].id = queue[k].entityId
          /\ readings[i].syncStatus = "conflicted"
          /\ readings[i].version = 2

(***************************************************************************)
(* Properties of the passes, over Spec.                                    *)
(***************************************************************************)
\* the pass of slot s has read an empty list of ready items and takes a step
\* in a process that stays alive
EmptyPassStep(s) ==
    /\ pass[s].pc \in {"loop", "final", "clear"}
    /\ pass[s].pendingItems = <<>>
    /\ pass'[s] # pass[s]
    /\ db'

\* C21: a pass that found no item to process while reachable and with the
\* database open changes no queue item and no entity record, dispatches no
\* request, and ends with status success and isSyncing false.
EmptyPassIsNoOp ==
    [][\A s \in Slots : EmptyPassStep(s) =>
          /\ \A k \in 1..Len(queue) :
                queue[k].status # "completed" => k <= Len(queue') /\ queue'[k] = queue[k]
          /\ meters' = meters
          /\ readings' = readings
          /\ okReturned' = okReturned
          /\ pass'[s].dispatched = <<>>
          /\ pass'[s].pc # "apiCall"
          /\ pass'[s].pc = "idle" =>
                /\ currentSyncStatus'.status = "success"
                /\ ~isSyncing']_vars

\* C21: nothing was ever enqueued and a pass has run to its end
EmptyPassWitness ==
    /\ db
    /\ nextItemId = 1
    /\ queue = <<>>
    /\ ~isSyncing
    /\ \A s \in Slots : pass[s].pc = "idle"
    /\ currentSyncStatus.status = "success"

(***************************************************************************)
(* The triggers of a pass, with network states that tell the kind of       *)
(* connection, so that NetInfo reports changes between reachable states.   *)
(***************************************************************************)
TriggerNetStates ==
    {[isConnected |-> TRUE, isInternetReachable |-> TRUE, type |-> "wifi"],
     [isConnected |-> TRUE, isInternetReachable |-> TRUE, type |-> "cellular"],
     [isConnected |-> TRUE, isInternetReachable |-> FALSE, type |-> "wifi"],
     [isConnected |-> FALSE, isInternetReachable |-> FALSE, type |-> "none"]}

NextTriggers ==
    \/ OpenDatabase
    \/ Restart
    \/ \E sn \in Serials, qf \in BOOLEAN : AddMeter(sn, qf)
    \/ \E net \in TriggerNetStates : InitializeSyncService(net)
    \/ \E net \in TriggerNetStates : NetInfoEvent(net)
    \/ PeriodicTimer
    \/ ManualTriggerSync
    \/ \E s \in Slots, f \in BOOLEAN : ReadPending(s, f)
    \/ \E s \in Slots : AbortLoop(s)
    \/ \E s \in Slots : StartItem(s)
    \/ \E s \in Slots : ApiFailure(s)
    \/ \E s \in Slots, kind \in BodyKinds : ApiSuccess(s, kind)
    \/ \E s \in Slots : RefetchPending(s)
    \/ \E s \in Slots : FinishSync(s)

SpecTriggers == Init /\ [][NextTriggers]_vars

\* the step starts a pass
PassStarted == \E s \in Slots : pass[s].pc = "idle" /\ pass'[s].pc = "getPending"

\* the event reports connected and reachable after a state that was not
\* reachable or not known
BecomesReachable(netState) ==
    /\ ~IsInternetReachable(currentNetworkState)
    /\ netState.isConnected /\ netState.isInternetReachable

Text(t) == [isValue |-> FALSE, text |-> t, value |-> NULL]
Value(v) == [isValue |-> TRUE, text |-> "", value |-> v]

getApiDetails(operationType, payload, item) ==
    LET entityId == Coalesce(item.entityId, payload.id)
        relatedEntityId == item.relatedEntityId
        Child(parent, kind) == <<Text("meters"), Value(parent), Text(kind)>>
        RouteChild == <<Text("routes"), Value(relatedEntityId), Text("meters")>>
    IN
    CASE operationType = "CREATE_METER" -> [method |-> "POST", url |-> <<Text("meters")>>]
      [] operationType = "UPDATE_METER" ->
            [method |-> "PUT", url |-> <<Text("meters"), Value(entityId)>>]
      [] operationType = "DELETE_METER" ->
            [method |-> "DELETE", url |-> <<Text("meters"), Value(entityId)>>]
      [] operationType = "CREATE_READING" ->
            [method |-> "POST", url |-> Child(payload.meterId, "readings")]
      [] operationType = "UPDATE_READING" ->
            [method |-> "PUT",
             url |-> Child(payload.meterId, "readings") \o <<Value(entityId)>>]
      [] operationType = "DELETE_READING" ->
            [method |-> "DELETE",
             url |-> Child(payload.meterId, "readings") \o <<Value(entityId)>>]
      [] operationType = "CREATE_INCIDENT" ->
            [method |-> "POST", url |-> Child(payload.meterId, "incidents")]
      [] operationType = "UPDATE_INCIDENT" ->
            [method |-> "PUT",
             url |-> Child(payload.meterId, "incidents") \o <<Value(entityId)>>]
      [] operationType = "DELETE_INCIDENT" ->
            [method |-> "DELETE",
             url |-> Child(payload.meterId, "incidents") \o <<Value(entityId)>>]
      [] operationType = "CREATE_ROUTE" -> [method |-> "POST", url |-> <<Text("routes")>>]
      [] operationType = "UPDATE_ROUTE" ->
            [method |-> "PUT", url |-> <<Text("routes"), Value(entityId)>>]
      [] operationType = "DELETE_ROUTE" ->
            [method |-> "DELETE", url |-> <<Text("routes"), Value(entityId)>>]
      [] operationType = "CREATE_ROUTEMETER" -> [method |-> "POST", url |-> RouteChild]
      [] operationType = "UPDATE_ROUTEMETER" ->
            [method |-> "PUT", url |-> RouteChild \o <<Value(payload.meterId)>>]
      [] operationType = "DELETE_ROUTEMETER" ->
            [method |-> "DELETE", url |-> RouteChild \o <<Value(payload.meterId)>>]
      [] operationType = "BATCH_UPDATE_ROUTEMETER_SEQUENCE" ->
            [method |-> "PUT", url |-> RouteChild \o <<Text("sequence")>>]
      [] operationType = "DELETE_ROUTEMETERS_BY_ROUTEID" ->
            [method |-> "DELETE",
             url |-> <<Text("routes"), Value(entityId), Text("meters")>>]
      [] operationType = "CREATE_SETTING" ->
            [method |-> "POST", url |-> <<Text("settings")>>]
      [] operationType = "UPDATE_SETTING" ->
            [method |-> "PUT", url |-> <<Text("settings"), Value(entityId)>>]
      [] operationType = "DELETE_SETTING" ->
            [method |-> "DELETE", url |-> <<Text("settings"), Value(entityId)>>]
      [] operationType = "UPSERT_SETTING" ->
            [method |-> "PUT", url |-> <<Text("settings"), Value(payload.key)>>]

\* config.data of makeApiCall; "undefined" when no body is sent
RequestData(method, payload) ==
    IF method = "POST" \/ method = "PUT" THEN [sent |-> TRUE, body |-> payload]
    ELSE [sent |-> FALSE, body |-> "undefined"]

\* the payload of a queued operation: the fields getApiDetails reads
ApiPayload(id, meterId, routeId, key) ==
    [id |-> id, meterId |-> meterId, routeId |-> routeId, key |-> key]

ApiItem(operationType, payload, entityId, relatedEntityId) ==
    [operationType |-> operationType, payload |-> payload, entityId |-> entityId,
     relatedEntityId |-> relatedEntityId]

ApiEntityIds == {1, 2}
ApiMeterIds == {7, 8}
ApiRouteIds == {5, 6}
ApiKeys == {3, 4}

\* the operations the repositories enqueue, with their arguments
EnqueuedMeterOperations ==
    {ApiItem(op, ApiPayload(e, NULL, NULL, NULL), e, NULL) :
        op \in {"CREATE_METER", "UPDATE_METER", "DELETE_METER"}, e \in ApiMeterIds}

EnqueuedReadingOperations ==
    {ApiItem(op, ApiPayload(e, m, NULL, NULL), e, m) :
        op \in {"CREATE_READING", "UPDATE_READING", "DELETE_READING"},
        e \in ApiEntityIds, m \in ApiMeterIds}

\* the incidents of a meter; deleteIncident enqueues { id } alone
EnqueuedIncidentOperations ==
    {ApiItem(op, ApiPayload(e, m, NULL, NULL), e, m) :
        op \in {"CREATE_INCIDENT", "UPDATE_INCIDENT"},
        e \in ApiEntityIds, m \in ApiMeterIds}
    \cup {ApiItem("DELETE_INCIDENT", ApiPayload(e, NULL, NULL, NULL), e, NULL) :
            e \in ApiEntityIds}

EnqueuedRouteOperations ==
    {ApiItem(op, ApiPayload(r, NULL, NULL, NULL), r, NULL) :
        op \in {"CREATE_ROUTE", "UPDATE_ROUTE", "DELETE_ROUTE"}, r \in ApiRouteIds}

EnqueuedRouteMeterOperations ==
    {ApiItem(op, ApiPayload(e, m, r, NULL), e, r) :
        op \in {"CREATE_ROUTEMETER", "UPDATE_ROUTEMETER", "DELETE_ROUTEMETER"},
        e \in {NULL, 1}, m \in ApiMeterIds, r \in ApiRouteIds}
    \cup {ApiItem("DELETE_ROUTEMETERS_BY_ROUTEID", ApiPayload(NULL, NULL, r, NULL), r, r) :
            r \in ApiRouteIds}
    \cup {ApiItem("BATCH_UPDATE_ROUTEMETER_SEQUENCE", ApiPayload(NULL, NULL, r, NULL),
                  NULL, r) : r \in ApiRouteIds}

EnqueuedSettingOperations ==
    {ApiItem(op, ApiPayload(NULL, NULL, NULL, k), k, NULL) :
        op \in {"CREATE_SETTING", "UPDATE_SETTING", "DELETE_SETTING"}, k \in ApiKeys}
    \cup {ApiItem("UPSERT_SETTING", ApiPayload(NULL, NULL, NULL, k), NULL, NULL) :
            k \in ApiKeys}

EnqueuedOperations ==
    EnqueuedMeterOperations \cup EnqueuedReadingOperations
    \cup EnqueuedIncidentOperations \cup EnqueuedRouteOperations
    \cup EnqueuedRouteMeterOperations \cup EnqueuedSettingOperations

NoRequest == [method |-> "none", url |-> <<>>, data |-> [sent |-> FALSE, body |-> "undefined"]]

InitApi ==
    /\ queue = <<>>
    /\ meters = <<>>
    /\ readings = <<>>
    /\ now = MaxTime
    /\ nextItemId = 1
    /\ nextUuid = 1
    /\ db = TRUE
    /\ isSyncing = FALSE
    /\ currentSyncStatus = IdleStatus
    /\ currentNetworkState = NoNet
    /\ listening = FALSE
    /\ pass = [s \in Slots |-> IdlePass]
    /\ okReturned = {}
    /\ lastOp = NoOp
    /\ \E item \in EnqueuedOperations :
          call = [fn |-> "getApiDetails", item |-> item, applied |-> 0,
                  request |-> NoRequest]

\* processQueueItem: apiDetails = getApiDetails(...), then the config of makeApiCall
BuildRequest ==
    /\ call.applied = 0
    /\ LET apiDetails == getApiDetails(call.item.operationType, call.item.payload,
                                       call.item)
       IN call' = [call EXCEPT
                     !.applied = 1,
                     !.request = [method |-> apiDetails.method, url |-> apiDetails.url,
                                  data |-> RequestData(apiDetails.method,
                                                       call.item.payload)]]
    /\ UNCHANGED <<queue, meters, readings, now, nextItemId, nextUuid, db, syncVars,
                   currentNetworkState, listening, okReturned, lastOp>>

NextApi == BuildRequest

SpecApi == InitApi /\ [][NextApi]_vars

CreateTypes ==
    {"CREATE_METER", "CREATE_READING", "CREATE_INCIDENT", "CREATE_ROUTE",
     "CREATE_ROUTEMETER", "CREATE_SETTING"}

PutTypes ==
    {"UPDATE_METER", "UPDATE_READING", "UPDATE_INCIDENT", "UPDATE_ROUTE",
     "UPDATE_ROUTEMETER", "UPDATE_SETTING", "UPSERT_SETTING",
     "BATCH_UPDATE_ROUTEMETER_SEQUENCE"}

DeleteTypes ==
    {"DELETE_METER", "DELETE_READING", "DELETE_INCIDENT", "DELETE_ROUTE",
     "DELETE_ROUTEMETER", "DELETE_ROUTEMETERS_BY_ROUTEID", "DELETE_SETTING"}

\* C23: every CREATE_* operation maps to POST on a collection url, every
\* UPDATE_*, UPSERT_SETTING and BATCH_UPDATE_ROUTEMETER_SEQUENCE to PUT,
\* every DELETE_* to DELETE on a resource named by an id; every id of the
\* url, the parent id of a child entity included, is defined; a body is
\* sent for POST and PUT and none for DELETE.
RequestMapping ==
    call.applied = 1 =>
        LET op == call.item.operationType
            url == call.request.url
        IN /\ op \in CreateTypes =>
                 call.request.method = "POST" /\ ~url[Len(url)].isValue
           /\ op \in PutTypes => call.request.method = "PUT"
           /\ op \in DeleteTypes =>
                 /\ call.request.method = "DELETE"
                 /\ \E i \in 1..Len(url) : url[i].isValue
           /\ \A i \in 1..Len(url) : url[i].isValue => url[i].value # NULL
           /\ call.request.data.sent <=> call.request.method \in {"POST", "PUT"}

(***************************************************************************)
(* handleReconciliation for a delivered BATCH_UPDATE_ROUTEMETER_SEQUENCE   *)
(* operation, on any content of the RouteMeters table of route 1.          *)
(***************************************************************************)
\* case 'BATCH_UPDATE_ROUTEMETER_SEQUENCE': the branch logs that the
\* reconciliation is not implemented and calls no repository
HandleBatchUpdateSequence(rm, item, serverResponseData) == rm

\* ServerBatchResponse: success, with or without the list of updated items
ServerBatchResponses ==
    {[success |-> TRUE, items |-> <<>>]}
    \cup {[success |-> TRUE, items |-> <<srm>>] :
            srm \in {x \in ServerRouteMeters : x.version = NULL /\ x.meterId <= MaxUuid}}

InitBatch ==
    /\ queue = <<>>
    /\ meters = <<>>
    /\ readings = <<>>
    /\ now = MaxTime
    /\ nextItemId = 2
    /\ nextUuid = 1
    /\ db = TRUE
    /\ isSyncing = FALSE
    /\ currentSyncStatus = IdleStatus
    /\ currentNetworkState = NoNet
    /\ listening = FALSE
    /\ pass = [s \in Slots |-> IdlePass]
    /\ okReturned = {}
    /\ lastOp = NoOp
    /\ \E t \in RouteMeterTables, sv \in ServerBatchResponses :
          call = [fn |-> "handleReconciliation",
                  item |-> NewQueueItem(1, "BATCH_UPDATE_ROUTEMETER_SEQUENCE",
                                        [id |-> NULL, serialNumber |-> NULL,
                                         meterId |-> NULL],
                                        NULL, "RouteMeter", 1, 0),
                  store |-> t, server |-> sv, applied |-> 0]

\* processQueueItem after the successful call: await handleReconciliation(...)
DeliverBatch ==
    /\ call.applied = 0
    /\ call' = [call EXCEPT
                  !.store = HandleBatchUpdateSequence(call.store, call.item, call.server),
                  !.applied = 1]
    /\ UNCHANGED <<queue, meters, readings, now, nextItemId, nextUuid, db, syncVars,
                   currentNetworkState, listening, okReturned, lastOp>>

NextBatch == DeliverBatch

SpecBatch == InitBatch /\ [][NextBatch]_vars

\* C24: after a BATCH_UPDATE_ROUTEMETER_SEQUENCE operation was delivered,
\* an item the server returned is applied as reconcileUpdatedRouteMeter
\* applies it, and without an item list every pending route-meter of the
\* route becomes synced and the others are left unchanged.
BatchReconciled ==
    [][call.applied = 0 =>
          IF call.server.items = <<>>
          THEN /\ Len(call'.store) = Len(call.store)
               /\ \A i \in 1..Len(call.store) :
                     call'.store[i] =
                        IF call.store[i].syncStatus = "pending"
                        THEN [call'.store[i] EXCEPT !.syncStatus = "synced"]
                        ELSE call.store[i]
          ELSE call'.store =
                  ReconcileUpdatedRouteMeter(call.store, call.server.items[1].routeId,
                                             call.server.items[1].meterId,
                                             call.server.items[1], now).routeMeters]_vars

\* the reconcileCreated functions of the kinds whose records have an id
CreatedOfRecord ==
    CreatedWithServerId \cup {"reconcileCreatedIncident"}

\* the call is a reconcileCreated for a local id without record, with remote
\* data that carries a server id and that no constraint of the table rejects
CreatedForDeletedRecord(c) ==
    /\ c.fn \in CreatedOfRecord
    /\ c.applied = 0
    /\ c.server.id # NULL
    /\ \A i \in 1..Len(c.store) : c.store[i].id # c.localId
    /\ ~ReconcileThrew(c, nextUuid, now)

\* C25: for every creatable kind, reconcileCreated for a local id whose
\* record was deleted inserts one record built from the remote data, with
\* syncStatus synced and the server id.
DeletedRecordIsInserted ==
    [][CreatedForDeletedRecord(call) =>
          /\ Len(call'.store) = Len(call.store) + 1
          /\ \A i \in 1..Len(call.store) : call'.store[i] = call.store[i]
          /\ call'.store[Len(call'.store)].syncStatus = "synced"
          /\ "serverId" \in DOMAIN call'.store[Len(call'.store)] =>
                call'.store[Len(call'.store)].serverId = call.server.id]_vars


(***************************************************************************)
(* The reconcileDeleted functions, called by handleReconciliation after a  *)
(* DELETE_* item was delivered.                                            *)
(***************************************************************************)
\* findReadingForReconciliation looks the reading up by its local id only;
\* DELETE FROM Readings WHERE id = ? runs unless the reading is missing and
\* no server id was given
ReconcileDeletedReading(rs, readingId, serverId) ==
    LET localReading == GetReadingById(rs, readingId)
        idToDelete == IF localReading # NoRow THEN localReading.id ELSE readingId
    IN  IF localReading = NoRow /\ serverId = NULL
        THEN [readings |-> rs, threw |-> FALSE]
        ELSE [readings |-> DeleteRow(rs, idToDelete), threw |-> FALSE]

ReconcileDeletedRoute(rt, routeId) ==
    IF GetRouteById(rt, routeId) = NoRow
    THEN [routes |-> rt, threw |-> FALSE]
    ELSE [routes |-> DeleteRow(rt, routeId), threw |-> FALSE]

\* only logs: deleteIncident has removed the record before it enqueued
ReconcileDeletedIncident(ins, localId, serverId) ==
    [incidents |-> ins, threw |-> FALSE]

ReconcileDeletedRouteMeter(rm, routeId, meterId) ==
    IF GetRouteMeterById(rm, routeId, meterId) = NoRow
    THEN [routeMeters |-> rm, threw |-> FALSE]
    ELSE [routeMeters |->
             SelectSeq(rm, LAMBDA r : ~(r.routeId = routeId /\ r.meterId = meterId)),
          threw |-> FALSE]

ReconcileDeletedSetting(st, settingKey) ==
    IF GetSettingByKey(st, settingKey) = NoRow
    THEN [settings |-> st, threw |-> FALSE]
    ELSE [settings |-> DeleteRow(st, settingKey), threw |-> FALSE]

\* serverResponseData?.id of a delete response: none, or the server id
DeletedServerIds == {NULL, 101}

\* call is a call of the reconcileDeleted function f, not yet applied
IsDeletedCall(f, tables, serverIds) ==
    \E t \in tables, l \in 1..(MaxUuid + 1), sid \in serverIds :
       call = [fn |-> f, store |-> t, localId |-> l, serverId |-> sid,
               applied |-> 0, once |-> <<>>]

InitDeleted ==
    /\ queue = <<>>
    /\ meters = <<>>
    /\ readings = <<>>
    /\ now = MaxTime
    /\ nextItemId = 1
    /\ nextUuid = MaxUuid + 2
    /\ db = TRUE
    /\ isSyncing = FALSE
    /\ currentSyncStatus = IdleStatus
    /\ currentNetworkState = NoNet
    /\ listening = FALSE
    /\ pass = [s \in Slots |-> IdlePass]
    /\ okReturned = {}
    /\ lastOp = NoOp
    /\ \/ IsDeletedCall("reconcileDeletedMeter", MeterTables, DeletedServerIds)
       \/ IsDeletedCall("reconcileDeletedReading", ReadingTables, DeletedServerIds)
       \/ IsDeletedCall("reconcileDeletedRoute", RouteTables, {NULL})
       \/ /\ IsDeletedCall("reconcileDeletedIncident", IncidentTables, {NULL})
          /\ \A i \in 1..Len(call.store) : call.store[i].id # call.localId
       \/ IsDeletedCall("reconcileDeletedRouteMeter", RouteMeterTables, {NULL})
       \/ IsDeletedCall("reconcileDeletedSetting", SettingTables, {NULL})

\* the table after c.fn(c.localId, c.serverId) on c.store
Deleted(c) ==
    CASE c.fn = "reconcileDeletedMeter" ->
            ReconcileDeletedMeter(c.store, c.localId, c.serverId).meters
      [] c.fn = "reconcileDeletedReading" ->
            ReconcileDeletedReading(c.store, c.localId, c.serverId).readings
      [] c.fn = "reconcileDeletedRoute" ->
            ReconcileDeletedRoute(c.store, c.localId).routes
      [] c.fn = "reconcileDeletedIncident" ->
            ReconcileDeletedIncident(c.store, c.localId, c.serverId).incidents
      [] c.fn = "reconcileDeletedRouteMeter" ->
            ReconcileDeletedRouteMeter(c.store, 1, c.localId).routeMeters
      [] c.fn = "reconcileDeletedSetting" ->
            ReconcileDeletedSetting(c.store, c.localId).settings

\* one application of the reconcileDeleted function of the call, with the
\* same arguments as the one before
ApplyDeleted ==
    /\ call.applied < 2
    /\ call' = [call EXCEPT !.store = Deleted(call),
                            !.applied = @ + 1,
                            !.once = IF call.applied = 0 THEN Deleted(call) ELSE @]
    /\ UNCHANGED <<queue, meters, readings, now, nextItemId, nextUuid, db, syncVars,
                   currentNetworkState, listening, okReturned, lastOp>>

NextDeleted == ApplyDeleted

SpecDeleted == InitDeleted /\ [][NextDeleted]_vars

\* the record of the call's local id is in the table t
HasLocalRecord(c, t) ==
    IF c.fn = "reconcileDeletedRouteMeter"
    THEN GetRouteMeterById(t, 1, c.localId) # NoRow
    ELSE \E i \in 1..Len(t) : t[i].id = c.localId

\* C26: reconcileDeleted is an idempotent delete: after it returns, the
\* record with the given local id does not exist; called when that record
\* is absent it changes nothing; and two calls leave the store of one call.
DeletedIsIdempotent ==
    [][ApplyDeleted =>
          /\ ~HasLocalRecord(call, call'.store)
          /\ ~HasLocalRecord(call, call.store) => call'.store = call.store
          /\ call'.applied = 2 => call'.store = call'.once]_vars


(***************************************************************************)
(* Queue items without entityId: addOperationToQueue takes entityId as an  *)
(* optional argument and stores NULL when it is not given.                 *)
(***************************************************************************)
MissingIdOperations ==
    {"CREATE_METER", "UPDATE_METER", "DELETE_METER", "CREATE_READING",
     "UPSERT_SETTING", "DELETE_ROUTEMETERS_BY_ROUTEID"}

MissingIdMeterTables == {t \in MeterTables : Len(t) <= 1}

InitMissingId ==
    /\ \E op \in MissingIdOperations, e \in {NULL, 1} :
          queue = <<NewQueueItem(1, op, [id |-> 1, serialNumber |-> 11, meterId |-> 1],
                                 e, "Meter", NULL, 0)>>
    /\ nextItemId = 2
    /\ meters \in MissingIdMeterTables
    /\ readings = <<>>
    /\ now = MaxTime
    /\ nextUuid = MaxUuid + 1
    /\ db = TRUE
    /\ isSyncing = FALSE
    /\ currentSyncStatus = IdleStatus
    /\ currentNetworkState = Reachable
    /\ listening = TRUE
    /\ pass = [s \in Slots |-> IdlePass]
    /\ okReturned = {}
    /\ lastOp = NoOp
    /\ call = NoCall

NextMissingId ==
    \/ PeriodicTimer
    \/ \E s \in Slots : ReadPending(s, FALSE)
    \/ \E s \in Slots : StartItem(s)
    \/ \E s \in Slots : ApiFailure(s)
    \/ \E s \in Slots, kind \in BodyKinds : ApiSuccess(s, kind)
    \/ \E s \in Slots : RefetchPending(s)
    \/ \E s \in Slots : FinishSync(s)

SpecMissingId == InitMissingId /\ [][NextMissingId]_vars

\* the row of the queue q with the id of the item in flight in slot s
RowInFlight(q, s) == SelectSeq(q, LAMBDA r : r.id = InFlight(s).id)[1]

\* the remote call of slot s succeeds for an item without entityId whose
\* operation needs one
SucceedsWithoutLocalId(s) ==
    /\ pass[s].pc = "apiCall"
    /\ InFlight(s).entityId = NULL
    /\ RequiresLocalEntityId(InFlight(s).operationType)
    /\ \E kind \in BodyKinds : ApiSuccess(s, kind)

\* C27: when the remote call succeeded for an item without entityId whose
\* type is a CREATE_* or an update/delete other than the three exempted
\* ones, the item is marked failed with the error that names the missing id
\* and no entity record changes.
MissingLocalIdFails ==
    [][\A s \in Slots : SucceedsWithoutLocalId(s) =>
          /\ RowInFlight(queue', s).status = "failed"
          /\ RowInFlight(queue', s).errorDetails = "Missing localEntityId"
          /\ RowInFlight(queue', s).attempts = RowInFlight(queue, s).attempts
          /\ meters' = meters
          /\ readings' = readings]_vars

MissingLocalIdWitness ==
    \E i \in 1..Len(queue) :
       /\ queue[i].entityId = NULL
       /\ queue[i].id \in okReturned
       /\ queue[i].status = "failed"
       /\ queue[i].errorDetails = "Missing localEntityId"
       /\ queue[i].operationType = "CREATE_METER"


(***************************************************************************)
(* Queue rows that processQueueItem cannot turn into a request: a payload  *)
(* that JSON.parse rejects, an operationType outside the switch of         *)
(* getApiDetails.                                                          *)
(***************************************************************************)
ProtocolItemKinds == {"ok", "unparsable", "unknown"}

ProtocolItem(id, kind) ==
    NewQueueItem(id,
                 IF kind = "unknown" THEN "ARCHIVE_METER" ELSE "CREATE_METER",
                 IF kind = "unparsable" THEN UnparsablePayload
                 ELSE [id |-> id, serialNumber |-> 10 + id, meterId |-> NULL],
                 id, "Meter", NULL, 0)

InitProtocol ==
    /\ \E k1, k2 \in ProtocolItemKinds :
          queue = <<ProtocolItem(1, k1), ProtocolItem(2, k2)>>
    /\ nextItemId = 3
    /\ meters = <<MeterRow(1, <<NULL, 11, 0, "pending", 0>>),
                  MeterRow(2, <<NULL, 12, 0, "pending", 0>>)>>
    /\ readings = <<>>
    /\ now = MaxTime
    /\ nextUuid = MaxUuid + 1
    /\ db = TRUE
    /\ isSyncing = FALSE
    /\ currentSyncStatus = IdleStatus
    /\ currentNetworkState = Reachable
    /\ listening = TRUE
    /\ pass = [s \in Slots |-> IdlePass]
    /\ okReturned = {}
    /\ lastOp = NoOp
    /\ call = NoCall

NextProtocol ==
    \/ PeriodicTimer
    \/ \E s \in Slots : ReadPending(s, FALSE)
    \/ \E s \in Slots : StartItem(s)
    \/ \E s \in Slots : ProtocolError(s)
    \/ \E s \in Slots : ApiFailure(s)
    \/ \E s \in Slots, kind \in BodyKinds : ApiSuccess(s, kind)
    \/ \E s \in Slots : RefetchPending(s)
    \/ \E s \in Slots : FinishSync(s)

SpecProtocol == InitProtocol /\ [][NextProtocol]_vars

\* the loop of slot s goes past an item with a protocol error
PassesProtocolError(s) ==
    /\ pass[s].pc = "loop"
    /\ pass[s].idx <= Len(pass[s].pendingItems)
    /\ ProtocolErrorOf(InFlight(s)) # "none"
    /\ pass'[s].idx = pass[s].idx + 1

\* C28: an item whose payload cannot be parsed or whose operationType is
\* unknown never has a remote request outstanding, in any pass; when a pass
\* goes past it, the item is marked failed with the error naming the cause
\* and no entity record changes; and the item stays in the queue.
ProtocolErrorsFail ==
    /\ [](\A s \in Slots : pass[s].pc = "apiCall" =>
                ProtocolErrorOf(InFlight(s)) = "none")
    /\ [](\A i \in 1..Len(queue) : ProtocolErrorOf(queue[i]) # "none" =>
                queue[i].id \notin okReturned /\ queue[i].status # "completed")
    /\ [][\A s \in Slots : PassesProtocolError(s) =>
             /\ RowInFlight(queue', s).status = "failed"
             /\ RowInFlight(queue', s).errorDetails = ProtocolErrorOf(InFlight(s))
             /\ meters' = meters
             /\ readings' = readings]_vars
    /\ [][\A i \in 1..Len(queue) : ProtocolErrorOf(queue[i]) # "none" =>
             \E j \in 1..Len(queue') : Identity(queue'[j]) = Identity(queue[i])]_vars

\* an unparsable item that two passes have gone past, next to an item that
\* was delivered and removed
ProtocolErrorsWitness ==
    /\ Len(queue) = 1
    /\ queue[1].payload = UnparsablePayload
    /\ queue[1].status = "failed"
    /\ queue[1].errorDetails = "Payload parse error"
    /\ queue[1].attempts = 2
    /\ \A s \in Slots : pass[s].pc = "idle"


(***************************************************************************)
(* A pass over a queue of operations the remote authority refuses, while   *)
(* the UI adds the second meter.                                           *)
(***************************************************************************)
\* n operations on the first meter
SnapshotQueue(n) ==
    [k \in 1..n |->
        NewQueueItem(k, IF k = 1 THEN "CREATE_METER" ELSE "UPDATE_METER",
                     [id |-> 1, serialNumber |-> 11, meterId |-> NULL],
                     1, "Meter", NULL, 0)]

InitSnapshot ==
    /\ \E n \in {DefaultLimit - 1, DefaultLimit} :
          /\ queue = SnapshotQueue(n)
          /\ nextItemId = n + 1
    /\ meters = <<[id |-> 1, serverId |-> NULL, serialNumber |-> 11, version |-> 0,
                   syncStatus |-> "pending", lastModified |-> 0]>>
    /\ readings = <<>>
    /\ now = MaxTime
    /\ nextUuid = 2
    /\ db = TRUE
    /\ isSyncing = FALSE
    /\ currentSyncStatus = IdleStatus
    /\ currentNetworkState = Reachable
    /\ listening = TRUE
    /\ pass = [s \in Slots |-> IdlePass]
    /\ okReturned = {}
    /\ lastOp = NoOp
    /\ call = NoCall

\* the pass of slot s has read its snapshot and has not ended
PassRunning(s) == pass[s].pc \notin {"idle", "getPending"}

\* addMeter called from the UI while a pass is working on its snapshot
AddMeterDuringPass ==
    /\ db
    /\ \E s \in Slots : PassRunning(s)
    /\ nextUuid <= MaxUuid
    /\ LET newMeter == [id |-> nextUuid, serverId |-> NULL, serialNumber |-> 12,
                        version |-> 0, syncStatus |-> "pending", lastModified |-> now]
       IN /\ MeterInsertOk(meters, newMeter)
          /\ meters' = Append(meters, newMeter)
          /\ nextUuid' = nextUuid + 1
          /\ Enqueue("CREATE_METER", MeterPayload(newMeter), newMeter.id, "Meter",
                     NULL, FALSE)
          /\ lastOp' = [op |-> "addMeter", returned |-> "ok",
                        changed |-> TRUE, queued |-> TRUE]
    /\ UNCHANGED <<readings, now, db, listening, currentNetworkState, syncVars,
                   okReturned, call>>

NextSnapshot ==
    \/ AddMeterDuringPass
    \/ PeriodicTimer
    \/ \E s \in Slots : ReadPending(s, FALSE)
    \/ \E s \in Slots : StartItem(s)
    \/ \E s \in Slots : RefusedCall(s)
    \/ \E s \in Slots, kind \in BodyKinds : AcceptedCall(s, kind)
    \/ \E s \in Slots : RefetchPending(s)
    \/ \E s \in Slots : FinishSync(s)

SpecSnapshot == InitSnapshot /\ [][NextSnapshot]_vars

\* the ids of the items of a snapshot
SnapshotIds(items) == {items[k].id : k \in 1..Len(items)}

\* C29: a pass works on one snapshot, read once at its start, and starts each
\* item of it at most once; an item enqueued while the pass runs is not
\* dispatched by it, keeps status pending and attempts 0, and is selected by
\* the next pass; when a pass ends, no completed item is left in the queue.
PassWorksOnSnapshot ==
    /\ [](\A s \in Slots :
            /\ \A a \in 1..Len(pass[s].dispatched) :
                  pass[s].dispatched[a] \in SnapshotIds(pass[s].pendingItems)
            /\ \A a, b \in 1..Len(pass[s].dispatched) :
                  pass[s].dispatched[a] = pass[s].dispatched[b] => a = b)
    /\ [][\A s \in Slots : (PassRunning(s) /\ pass'[s].pc # "idle") =>
             /\ pass'[s].pendingItems = pass[s].pendingItems
             /\ \A i \in 1..Len(queue) :
                   queue[i].id \notin SnapshotIds(pass[s].pendingItems) =>
                      \E j \in 1..Len(queue') : queue'[j] = queue[i]]_vars
    /\ [][\A s \in Slots : (pass[s].pc = "getPending" /\ pass'[s].pc = "loop") =>
             \A i \in 1..Len(queue) :
                (queue[i].status = "pending" /\ queue[i].attempts = 0) =>
                   queue[i].id \in SnapshotIds(pass'[s].pendingItems)]_vars
    /\ [][\A s \in Slots : (pass[s].pc = "clear" /\ pass'[s].pc = "idle") =>
             \A j \in 1..Len(queue') : queue'[j].status # "completed"]_vars


(***************************************************************************)
(* Sequential processing, over Spec.                                       *)
(***************************************************************************)
\* the slots whose pass has a remote request outstanding
Outstanding == {s \in Slots : pass[s].pc = "apiCall"}

\* C30: at any moment at most one remote request of the sync engine is
\* outstanding, and an item is dispatched or reconciled only while no request
\* of another item is outstanding.
SequentialProcessing ==
    /\ [](Cardinality(Outstanding) <= 1)
    /\ [][\A s \in Slots :
             (pass[s].pc # "apiCall" /\ pass'[s].pc = "apiCall") => Outstanding = {}]_vars
    /\ [][\A s \in Slots :
             (pass[s].pc = "apiCall" /\ (meters' # meters \/ readings' # readings)) =>
                Outstanding = {s}]_vars

\* the second item of a pass is outstanding after the first one was
\* reconciled and marked completed
SequentialProcessingWitness ==
    \E s \in Slots :
       /\ pass[s].pc = "apiCall"
       /\ pass[s].idx = 2
       /\ \E i \in 1..Len(queue) :
             /\ queue[i].id = pass[s].pendingItems[1].id
             /\ queue[i].status = "completed"
       /\ \E i \in 1..Len(meters) : meters[i].syncStatus = "synced"


(***************************************************************************)
(* Properties of the columns attempts and errorDetails, over Spec.         *)
(***************************************************************************)
\* a pass starts processing the item with this id in this step
StartsProcessing(id) ==
    \E s \in Slots :
       /\ pass[s].pc = "loop"
       /\ pass'[s].pc = "apiCall"
       /\ InFlight(s).id = id

\* C31: attempts starts at 0, never decreases, grows by exactly 1 when a
\* pass starts processing the item (the transition to processing) and by 0
\* on the transitions to completed or failed.
AttemptsCountProcessing ==
    [][/\ \A i \in 1..Len(queue), j \in 1..Len(queue') :
             queue'[j].id = queue[i].id =>
                /\ queue'[j].attempts >= queue[i].attempts
                /\ StartsProcessing(queue[i].id) <=>
                      (queue'[j].status = "processing" /\ queue[i].status # "processing")
                /\ queue'[j].attempts =
                      IF StartsProcessing(queue[i].id)
                      THEN Min(MaxAttempts, queue[i].attempts + 1)
                      ELSE queue[i].attempts
       /\ \A j \in 1..Len(queue') :
             (\A i \in 1..Len(queue) : queue[i].id # queue'[j].id) =>
                queue'[j].attempts = 0]_vars

\* an item that was processed twice and failed, and one not yet processed
AttemptsWitness ==
    \E i, j \in 1..Len(queue) :
       /\ queue[i].attempts = 2
       /\ queue[i].status = "failed"
       /\ queue[j].attempts = 0
       /\ queue[j].status = "pending"


(***************************************************************************)
(* Properties of the report of a pass, over Spec.                          *)
(***************************************************************************)
\* the rows with this status among the items the pass of slot s has started
MarkedByPass(s, status) ==
    {i \in 1..Len(queue) :
        /\ queue[i].status = status
        /\ \E a \in 1..Len(pass[s].dispatched) : pass[s].dispatched[a] = queue[i].id}

\* C32: at the end of a pass the completed count of the report is the number
\* of items this pass marked completed and the failed count is the number of
\* items this pass marked failed.
SummaryCountsMatch ==
    \A s \in Slots : pass[s].pc = "clear" =>
        /\ pass[s].completedItems = Cardinality(MarkedByPass(s, "completed"))
        /\ pass[s].failedItems = Cardinality(MarkedByPass(s, "failed"))


(***************************************************************************)
(* Passes during which a write to OfflineQueue is rejected.                *)
(* updateQueueItemStatus rethrows the error of executeSql; processQueueItem*)
(* catches it only inside the success branch, where the catch block calls  *)
(* updateQueueItemStatus again; the error leaves processQueueItem and the  *)
(* for loop and reaches the catch and finally blocks of triggerSync.       *)
(***************************************************************************)
\* outcome "processing": the write that marks the item processing throws;
\* outcome "failure": the remote call failed and the write that marks the
\* item failed throws; outcome "success": the remote call succeeded, the
\* item was reconciled, and the writes of completed and of failed both throw
WriteOutcomes == {"processing", "failure", "success"}

QueueWriteThrows(s, outcome, kind) ==
    /\ IF outcome = "processing"
       THEN /\ pass[s].pc = "loop"
            /\ pass[s].idx <= Len(pass[s].pendingItems)
            /\ IsInternetReachable(currentNetworkState)
            /\ UNCHANGED <<meters, readings, nextUuid, okReturned>>
       ELSE /\ pass[s].pc = "apiCall"
            /\ IF outcome = "failure"
               THEN UNCHANGED <<meters, readings, nextUuid, okReturned>>
               ELSE LET item == pass[s].pendingItems[pass[s].idx]
                        r == HandleReconciliation(item, ResponseBody(item, kind),
                                                  meters, readings, nextUuid, now)
                        skipped == item.entityId = NULL
                                   /\ RequiresLocalEntityId(item.operationType)
                    IN /\ okReturned' = okReturned \cup {item.id}
                       /\ meters' = IF skipped THEN meters ELSE r.meters
                       /\ readings' = IF skipped THEN readings ELSE r.readings
                       /\ nextUuid' = IF ~skipped /\ Len(r.meters) > Len(meters)
                                      THEN nextUuid + 1 ELSE nextUuid
    /\ queue' = queue
    /\ currentSyncStatus' = [status |-> "error"]
    /\ isSyncing' = FALSE
    /\ pass' = [pass EXCEPT ![s] = IdlePass]
    /\ lastOp' = NoOp
    /\ UNCHANGED othersOfPass

InitFaults ==
    /\ \E k \in 1..2 :
          /\ queue = [i \in 1..k |->
                        NewQueueItem(i, "CREATE_METER",
                                     [id |-> i, serialNumber |-> 10 + i, meterId |-> NULL],
                                     i, "Meter", NULL, 0)]
          /\ nextItemId = k + 1
    /\ meters = <<MeterRow(1, <<NULL, 11, 0, "pending", 0>>),
                  MeterRow(2, <<NULL, 12, 0, "pending", 0>>)>>
    /\ readings = <<>>
    /\ now = MaxTime
    /\ nextUuid = MaxUuid + 1
    /\ db = TRUE
    /\ isSyncing = FALSE
    /\ currentSyncStatus = IdleStatus
    /\ currentNetworkState = Reachable
    /\ listening = TRUE
    /\ pass = [s \in Slots |-> IdlePass]
    /\ okReturned = {}
    /\ lastOp = NoOp
    /\ call = NoCall

\* the steps of a pass: each is the return of an awaited collaborator call
PassStep ==
    \/ \E s \in Slots, f \in BOOLEAN : ReadPending(s, f)
    \/ \E s \in Slots : AbortLoop(s)
    \/ \E s \in Slots : StartItem(s)
    \/ \E s \in Slots : ApiFailure(s)
    \/ \E s \in Slots, kind \in BodyKinds : ApiSuccess(s, kind)
    \/ \E s \in Slots, o \in WriteOutcomes, kind \in BodyKinds : QueueWriteThrows(s, o, kind)
    \/ \E s \in Slots : RefetchPending(s)
    \/ \E s \in Slots : FinishSync(s)

NextFaults ==
    \/ \E net \in NetStates : NetInfoEvent(net)
    \/ PeriodicTimer
    \/ ManualTriggerSync
    \/ PassStep

SpecFaults == InitFaults /\ [][NextFaults]_vars /\ WF_vars(PassStep)

\* C33: every started pass returns the guard: isSyncing is false whenever no
\* pass is running, on the success path, on the reachability-loss path and
\* when a queue read or write throws; and a pass that is running ends, so
\* that isSyncing never stays true.
GuardReturns ==
    /\ []((\A s \in Slots : pass[s].pc = "idle") => ~isSyncing)
    /\ (isSyncing ~> ~isSyncing)

\* a pass has ended by a rejected write, the guard is free and the item it
\* was working on is still in the queue
GuardReturnsWitness ==
    /\ ~isSyncing
    /\ currentSyncStatus.status = "error"
    /\ \A s \in Slots : pass[s].pc = "idle"
    /\ \E i \in 1..Len(queue) : queue[i].status = "processing"


\* C34: whenever no sync pass is active, no queue item has status
\* processing: every item a pass marks processing is moved to completed or
\* failed before that pass ends, also when a queue write throws.
NoItemStranded ==
    (\A s \in Slots : pass[s].pc = "idle") =>
        \A i \in 1..Len(queue) : queue[i].status # "processing"


\* getSyncStatus returns currentSyncStatus
getSyncStatus == currentSyncStatus

\* C35: the sync status report follows the guard: getSyncStatus returns
\* status syncing in every state where a pass is active (isSyncing true) and
\* never returns syncing when no pass is active.
StatusFollowsGuard ==
    isSyncing <=> getSyncStatus.status = "syncing"


\* C36: no reconcile function, on its success, conflict or error path, adds
\* an item to the operation queue.
ReconcileNeverEnqueues ==
    [][call.fn # "none" /\ call' # call => queue' = queue]_vars


\* C37: reconciling a create response never changes the local id of an
\* entity record: the record the call was made for exists under the same
\* local id afterwards, so queue items whose entityId is that id still
\* refer to a record.
CreatedKeepsLocalId ==
    [][(/\ call.fn \in CreatedOfRecord
        /\ call.applied = 0
        /\ call'.applied = 1
        /\ \E i \in 1..Len(call.store) : call.store[i].id = call.localId) =>
          \E j \in 1..Len(call'.store) : call'.store[j].id = call.localId]_vars


(***************************************************************************)
(* initializeSyncService: the handles unsubscribeNetInfoListener and       *)
(* syncIntervalId, the listeners and intervals that are registered, and    *)
(* the NetInfo.fetch() promises that have not settled yet.                 *)
(***************************************************************************)
MaxInitCalls == 4

\* no listener and no interval registered, both handles null
NoRegistration ==
    [fn |-> "initializeSyncService", calls |-> 0, fetches |-> 0,
     listeners |-> {}, timers |-> {},
     unsubscribeNetInfoListener |-> NULL, syncIntervalId |-> NULL]

InitRegistration ==
    /\ queue = <<>>
    /\ meters = <<>>
    /\ readings = <<>>
    /\ now = MaxTime
    /\ nextItemId = 1
    /\ nextUuid = 1
    /\ db \in BOOLEAN
    /\ isSyncing = FALSE
    /\ currentSyncStatus = IdleStatus
    /\ currentNetworkState = NoNet
    /\ listening = FALSE
    /\ pass = [s \in Slots |-> IdlePass]
    /\ okReturned = {}
    /\ lastOp = NoOp
    /\ call = NoRegistration

\* the synchronous part of initializeSyncService: the listener and the
\* interval the handles point to are removed, then NetInfo.fetch() is called
CallInitializeSyncService ==
    /\ call.calls < MaxInitCalls
    /\ call' = [call EXCEPT
                  !.calls = @ + 1,
                  !.fetches = @ + 1,
                  !.listeners = @ \ {call.unsubscribeNetInfoListener},
                  !.unsubscribeNetInfoListener = NULL,
                  !.timers = @ \ {call.syncIntervalId},
                  !.syncIntervalId = NULL]
    /\ listening' = (call'.listeners # {})
    /\ UNCHANGED <<queue, meters, readings, now, nextItemId, nextUuid, db, syncVars,
                   currentNetworkState, okReturned, lastOp>>

\* the then callback of one fetch: it registers a listener and an interval
\* and stores their handles; k names the registration
FetchResolves(initialNetState) ==
    /\ call.fetches > 0
    /\ LET k == call.calls - call.fetches + 1
       IN call' = [call EXCEPT
                     !.fetches = @ - 1,
                     !.listeners = @ \cup {k},
                     !.unsubscribeNetInfoListener = k,
                     !.timers = @ \cup {k},
                     !.syncIntervalId = k]
    /\ currentNetworkState' = initialNetState
    /\ listening' = TRUE
    /\ UNCHANGED <<queue, meters, readings, now, nextItemId, nextUuid, db, syncVars,
                   okReturned, lastOp>>

\* the catch callback of one fetch: it only logs
FetchRejects ==
    /\ call.fetches > 0
    /\ call' = [call EXCEPT !.fetches = @ - 1]
    /\ UNCHANGED <<queue, meters, readings, now, nextItemId, nextUuid, db, syncVars,
                   currentNetworkState, listening, okReturned, lastOp>>

NextRegistration ==
    \/ CallInitializeSyncService
    \/ \E net \in TriggerNetStates : FetchResolves(net)
    \/ FetchRejects

SpecRegistration == InitRegistration /\ [][NextRegistration]_vars

\* C38: after any sequence of initializeSyncService calls, including two
\* calls made before the first one's network-state fetch has resolved, at
\* most one network listener and at most one periodic timer are registered.
SingleRegistration ==
    /\ Cardinality(call.listeners) <= 1
    /\ Cardinality(call.timers) <= 1


\* the errorDetails arguments of updateQueueItemStatus: omitted, null, a text
ErrorDetailsArguments == {"UNDEFINED", "NULL", "Reconciliation failed"}

\* C39: updateQueueItemStatus clears errorDetails when the new status is not
\* failed and no error detail is passed, keeps the previous errorDetails when
\* the new status is failed and none is passed, and stores the passed error
\* detail otherwise; so an item marked completed or processing never carries
\* the error details of an earlier attempt.
ErrorDetailsFollowStatus ==
    \A i \in 1..Len(queue) :
       /\ queue[i].status \in {"processing", "completed"} =>
             queue[i].errorDetails = "NULL"
       /\ \A status \in QueueStatuses, e \in ErrorDetailsArguments :
             UpdateRow(queue[i], status, 0, e).errorDetails =
                IF e # "UNDEFINED" THEN e
                ELSE IF status = "failed" THEN queue[i].errorDetails
                ELSE "NULL"

\* an item whose first attempt failed is being processed again, and its
\* error details are cleared
ErrorDetailsWitness ==
    \E i \in 1..Len(queue) :
       /\ queue[i].status = "processing"
       /\ queue[i].attempts = 2
       /\ queue[i].errorDetails = "NULL"

=============================================================================
